---- MODULE Spec2Model ----
(***************************************************************************)
(* Orchestration core of the health and fitness planner: the tolerant JSON *)
(* parser, the in-memory profile store, the Knowledge Council's parallel   *)
(* expert dispatch and the Orchestrator that drives them.                  *)
(***************************************************************************)
EXTENDS Integers, Sequences, FiniteSets, TLC

VARIABLES
    ex_text,      \* robust_json_parser: the text argument (a token sequence)
    ex_result,    \* robust_json_parser: what the call produced
    ex_pc,        \* "idle" | "call" | "returned"
    user_profiles,\* the in-memory profile storage: user_id -> profile
    st_pc,        \* per request: where its profile read/update stands
    st_uid,       \* per request: the user_id it was called with
    st_existing,  \* per request: what get_user_profile returned to it
    st_new,       \* per request: the new_data it passes to update_user_profile
    st_ret,       \* per request: what update_user_profile returned to it
    st_wk,        \* per request: how many stores of its write are done
    st_written,   \* history: per user, the new_data of every write begun
    st_last,      \* history: per user, the new_data of the last write completed
    kc_pc,        \* Knowledge Council: "idle" | "submit" | "collect" | "returned" | "raised"
    kc_required,  \* required_experts, in the order they are submitted
    kc_future,    \* per expert: its future: "none" | "running" | "ok" | "failed"
    kc_result,    \* per expert: what its process_query returned
    kc_collected, \* the experts whose future the result loop has taken up, in order
    expert_responses, \* expert name -> core response fields
    all_references,   \* references collected so far
    all_disclaimers,  \* disclaimers collected so far
    kc_reverse,   \* history: the expert calls settled in reverse submission order
    kc_listed,    \* history: the names the relevance output listed for this query
    kc_cancelled, \* history: the client of this request has disconnected
    h_pc,         \* Orchestrator: "idle" | "route" | "dispatch" | "running" | "returned"
    h_gen_up,     \* whether the Generation Client can be reached during this request
    h_profile,    \* the profile snapshot loaded for the request
    h_decision,   \* the routing decision being executed
    h_raw,        \* the decision as extracted, before the fallback
    h_branch,     \* per subsystem: "none" | "running" | "ok" | "failed"
    h_plan_type,  \* the plan_type of the plan request
    h_plan,       \* the components of the plan the Plan Generator returned
    h_response,   \* what handle returned
    h_reply,      \* the assistant message the chat client made of it
    h_calls,      \* how many times the Strategist invoked the Generation Client
    h_alias,      \* whether the snapshot is still the very dict the store holds
    pl_pc,        \* generate_plan: "idle" | "call" | "returned"
    pl_request,   \* generate_plan: the request (plan_type and goal, each may be absent)
    pl_profile,   \* generate_plan: the user_profile argument
    pl_output,    \* the texts the sub-plans' generation calls return
    pl_components,\* generate_plan: the plan_components it returned
    mw_pc,        \* get_relief_exercises, per invocation: "idle" | "call" | "returned"
    mw_query,     \* get_relief_exercises: the query both invocations are given
    mw_profile,   \* per invocation: the user_profile argument, keys in insertion order
    mw_prompt,    \* per invocation: the prompt it built
    mw_calls,     \* per invocation: how many generation calls it made
    ch_messages,  \* useChat: messages
    ch_isLoading, \* useChat: isLoading
    ch_storage,   \* localStorage: the 'chatMessages' entry
    ch_req,       \* per sendMessage call that sent one: its /chat request
    ch_sent,      \* how many /chat requests have been sent
    ch_text,      \* ChatInput: message (the text typed)
    ch_calls,     \* history: the (text, isLoading) ChatInput called onSendMessage with
    ch_cleared,   \* history: clearChat has run and sendMessage was not called since
    pn_view,      \* PlanNavigator: view
    pn_dietPlan,  \* PlanNavigator: the dietPlan prop
    pn_fitnessPlan, \* PlanNavigator: the fitnessPlan prop
    fp_display    \* what the FitnessPlan on screen shows for the schedule

exVars == <<ex_text, ex_result, ex_pc>>

stVars == <<user_profiles, st_pc, st_uid, st_existing, st_new, st_ret, st_wk,
            st_written, st_last>>

kcVars == <<kc_pc, kc_required, kc_future, kc_result, kc_collected,
            expert_responses, all_references, all_disclaimers, kc_reverse, kc_listed,
            kc_cancelled>>

stReqVars == <<st_pc, st_uid, st_existing, st_new, st_ret, st_wk, st_written, st_last>>

hVars == <<h_pc, h_gen_up, h_profile, h_decision, h_raw, h_branch, h_plan_type, h_plan,
           h_response, h_reply, h_calls, h_alias>>

plVars == <<pl_pc, pl_request, pl_profile, pl_output, pl_components>>

mwVars == <<mw_pc, mw_query, mw_profile, mw_prompt, mw_calls>>

chVars == <<ch_messages, ch_isLoading, ch_storage, ch_req, ch_sent, ch_text, ch_calls,
            ch_cleared>>

pnVars == <<pn_view, pn_dietPlan, pn_fitnessPlan, fp_display>>

uiVars == <<mwVars, chVars, pnVars>>

vars == <<exVars, stVars, kcVars, hVars, plVars, uiVars>>

(***************************************************************************)
(* Generated text, as the JSON scanner sees it.  A text is a sequence of   *)
(* tokens: the four brackets, the comma, "k" (a quoted key with its        *)
(* colon), "v" (a scalar: number, string, true, false, null) and "x" (a    *)
(* word of prose, which no JSON document contains).                        *)
(***************************************************************************)
Tokens == {"{", "}", "[", "]", ",", "k", "v", "x"}

MaxLen == 5

RECURSIVE SeqsUpTo(_, _)
SeqsUpTo(S, n) ==
    IF n = 0 THEN {<<>>}
    ELSE LET shorter == SeqsUpTo(S, n - 1)
         IN  shorter \cup {Append(s, t) : s \in {q \in shorter : Len(q) = n - 1}, t \in S}

Texts == SeqsUpTo(Tokens, MaxLen)

EmptyDict == <<"{", "}">>

NoParse == [ok |-> FALSE, next |-> 0, val |-> <<>>]

TokAt(t, i) == IF i >= 1 /\ i <= Len(t) THEN t[i] ELSE "eof"

(***************************************************************************)
(* json.loads: a recursive-descent scan of one JSON value starting at      *)
(* token i.  The value is returned in canonical form: an object keeps one  *)
(* entry per key (the last one written wins, and "k" is the only key).     *)
(***************************************************************************)
RECURSIVE ScanValue(_, _), ScanMembers(_, _), ScanElements(_, _, _)
ScanValue(t, i) ==
    CASE TokAt(t, i) = "v" -> [ok |-> TRUE, next |-> i + 1, val |-> <<"v">>]
      [] TokAt(t, i) = "{" ->
            IF TokAt(t, i + 1) = "}"
            THEN [ok |-> TRUE, next |-> i + 2, val |-> EmptyDict]
            ELSE ScanMembers(t, i + 1)
      [] TokAt(t, i) = "[" ->
            IF TokAt(t, i + 1) = "]"
            THEN [ok |-> TRUE, next |-> i + 2, val |-> <<"[", "]">>]
            ELSE ScanElements(t, i + 1, <<"[">>)
      [] OTHER -> NoParse

ScanMembers(t, i) ==
    IF TokAt(t, i) # "k" THEN NoParse
    ELSE LET m == ScanValue(t, i + 1)
         IN  IF ~m.ok THEN NoParse
             ELSE CASE TokAt(t, m.next) = "," -> ScanMembers(t, m.next + 1)
                    [] TokAt(t, m.next) = "}" ->
                          [ok |-> TRUE, next |-> m.next + 1,
                           val |-> <<"{", "k">> \o m.val \o <<"}">>]
                    [] OTHER -> NoParse

ScanElements(t, i, acc) ==
    LET e == ScanValue(t, i)
    IN  IF ~e.ok THEN NoParse
        ELSE CASE TokAt(t, e.next) = "," ->
                      ScanElements(t, e.next + 1, acc \o e.val \o <<",">>)
               [] TokAt(t, e.next) = "]" ->
                      [ok |-> TRUE, next |-> e.next + 1, val |-> acc \o e.val \o <<"]">>]
               [] OTHER -> NoParse

\* json.loads(text): the whole text must be one value; otherwise JSONDecodeError.
JsonLoads(t) ==
    LET r == ScanValue(t, 1)
    IN  IF r.ok /\ r.next = Len(t) + 1
        THEN [ok |-> TRUE, val |-> r.val]
        ELSE [ok |-> FALSE, val |-> <<>>]

IndicesOf(t, tok) == {i \in 1..Len(t) : t[i] = tok}

Least(S) == CHOOSE i \in S : \A j \in S : i <= j

Greatest(S) == CHOOSE i \in S : \A j \in S : i >= j

\* re.search(r'({.*})', text, re.DOTALL): greedy, from the leftmost "{" to the
\* last "}" that follows it.
RegexSearch(t) ==
    LET opens == IndicesOf(t, "{")
        closes == IndicesOf(t, "}")
    IN  IF opens # {} /\ closes # {} /\ Greatest(closes) > Least(opens)
        THEN [found |-> TRUE, group |-> SubSeq(t, Least(opens), Greatest(closes))]
        ELSE [found |-> FALSE, group |-> <<>>]

Returned(value, tier) == [raised |-> FALSE, value |-> value, tier |-> tier]

Raised(tier) == [raised |-> TRUE, value |-> <<>>, tier |-> tier]

\* Plausible bugs of robust_json_parser, used to test the properties below.
robust_json_parser_regex_first(text) ==
    LET m == RegexSearch(text)
    IN  IF m.found /\ JsonLoads(m.group).ok THEN Returned(JsonLoads(m.group).val, 2)
        ELSE IF JsonLoads(text).ok THEN Returned(JsonLoads(text).val, 1)
        ELSE Returned(EmptyDict, 3)

robust_json_parser_unguarded(text) ==
    IF JsonLoads(text).ok THEN Returned(JsonLoads(text).val, 1)
    ELSE LET m == RegexSearch(text)
         IN  IF ~m.found THEN Returned(EmptyDict, 3)
             ELSE IF JsonLoads(m.group).ok THEN Returned(JsonLoads(m.group).val, 2)
             ELSE Raised(2)

\* robust_json_parser(text): direct parse, then the brace substring, then {}.
\* tier records which return statement produced the value.
robust_json_parser(text) ==
    IF JsonLoads(text).ok THEN Returned(JsonLoads(text).val, 1)
    ELSE LET m == RegexSearch(text)
         IN  IF m.found /\ JsonLoads(m.group).ok
             THEN Returned(JsonLoads(m.group).val, 2)
             ELSE Returned(EmptyDict, 3)

\* an extracted value that is an object with at least one entry
IsFilledObject(value) == Len(value) > 2 /\ value[1] = "{"

NoResult == [raised |-> FALSE, value |-> <<>>, tier |-> 0]

ExtractIdle ==
    /\ ex_text = <<>>
    /\ ex_result = NoResult
    /\ ex_pc = "idle"

ExtractInit ==
    /\ ex_text \in Texts
    /\ ex_result = NoResult
    /\ ex_pc = "call"

ParserCall ==
    /\ ex_pc = "call"
    /\ ex_result' = robust_json_parser(ex_text)
    /\ ex_pc' = "returned"
    /\ UNCHANGED ex_text
    /\ UNCHANGED <<stVars, kcVars, hVars, plVars, uiVars>>

(***************************************************************************)
(* The profile storage.  A profile is a dict from field names to values;   *)
(* user_profiles is a dict from user ids to profiles, empty at start.      *)
(***************************************************************************)
Fields == {"age", "weight"}

FieldValues(f) == IF f = "age" THEN {30, 31} ELSE {150}

Profiles ==
    UNION {{p \in [D -> {30, 31, 150}] : \A f \in D : p[f] \in FieldValues(f)} :
            D \in SUBSET Fields}

EmptyProfile == [f \in {} |-> 0]

UserIds == {"", "u1", "u2"}

NumRequests == 2

Requests == 1..NumRequests

\* (The bug: the assignment rebuilds the dict around the one key.)
DictSet_fresh(d, k, v) == [x \in {k} |-> v]

\* dict with key k set to v
DictSet(d, k, v) == [x \in DOMAIN d \cup {k} |-> IF x = k THEN v ELSE d[x]]

\* dict.get(k, default)
DictGet(d, k, default) == IF k \in DOMAIN d THEN d[k] ELSE default

\* old.update(new): new's fields over old's
DictUpdate(old, new) ==
    [f \in DOMAIN old \cup DOMAIN new |-> IF f \in DOMAIN new THEN new[f] ELSE old[f]]

DictRestrict(d, K) == [f \in DOMAIN d \cap K |-> d[f]]

\* get_user_profile(user_id)
get_user_profile(store, user_id) ==
    IF user_id = "" THEN EmptyProfile ELSE DictGet(store, user_id, EmptyProfile)

\* Plausible bugs of update_user_profile's store: merging into the old profile,
\* and rewriting the stored dict in place, one field at a time.
update_stores_merge(old, new_data) == <<DictUpdate(old, new_data)>>

update_stores_in_place(old, new_data) ==
    <<EmptyProfile, DictRestrict(new_data, {"age"}), new_data>>

\* update_user_profile's write, as the values user_profiles[user_id] takes in
\* turn: one assignment of new_data.copy(), whatever the old profile was.
update_stores(old, new_data) == <<new_data>>

\* user_profiles.get(user_id, {}) hands out the stored dict itself, not a copy;
\* for an unknown or empty user_id the dict returned is a new one
returns_stored_dict(store, user_id) == user_id # "" /\ user_id \in DOMAIN store

\* (The bug: the stored dict is cleared and refilled in place.)
update_mutates_stored_dict == FALSE

\* "user_profiles[user_id] = new_data.copy()": the key is bound to a new dict and
\* the dict stored before is left as it was
update_binds_new_dict == TRUE

NoLast == [set |-> FALSE, val |-> EmptyProfile]

StoreInit ==
    /\ user_profiles = [u \in {} |-> EmptyProfile]
    /\ st_pc = [r \in Requests |-> "idle"]
    /\ st_uid = [r \in Requests |-> ""]
    /\ st_existing = [r \in Requests |-> EmptyProfile]
    /\ st_new = [r \in Requests |-> EmptyProfile]
    /\ st_ret = [r \in Requests |-> EmptyProfile]
    /\ st_wk = [r \in Requests |-> 0]
    /\ st_written = [u \in UserIds |-> {}]
    /\ st_last = [u \in UserIds |-> NoLast]

\* A request arrives with its user_id and reads the stored profile.
StoreGet(r) ==
    /\ st_pc[r] = "idle"
    /\ \E u \in UserIds :
          /\ st_uid' = [st_uid EXCEPT ![r] = u]
          /\ st_existing' = [st_existing EXCEPT ![r] = get_user_profile(user_profiles, u)]
    /\ st_pc' = [st_pc EXCEPT ![r] = "extract"]
    /\ UNCHANGED <<user_profiles, st_new, st_ret, st_wk, st_written, st_last>>
    /\ UNCHANGED <<exVars, kcVars, hVars, plVars, uiVars>>

\* The extraction hands the request the fields it found in the message.
StoreExtract(r) ==
    /\ st_pc[r] = "extract"
    /\ \E e \in Profiles : st_new' = [st_new EXCEPT ![r] = e]
    /\ st_pc' = [st_pc EXCEPT ![r] = "update"]
    /\ UNCHANGED <<user_profiles, st_uid, st_existing, st_ret, st_wk, st_written, st_last>>
    /\ UNCHANGED <<exVars, kcVars, hVars, plVars, uiVars>>

\* The Profile Manager's generation call fails: the request ends with no update.
StoreExtractFailed(r) ==
    /\ st_pc[r] = "extract"
    /\ st_pc' = [st_pc EXCEPT ![r] = "failed"]
    /\ UNCHANGED <<user_profiles, st_uid, st_existing, st_new, st_ret, st_wk, st_written,
                   st_last>>
    /\ UNCHANGED <<exVars, kcVars, hVars, plVars, uiVars>>

\* update_user_profile with an empty user_id: new_data comes back, nothing stored.
StoreUpdateNoUser(r) ==
    /\ st_pc[r] = "update"
    /\ st_uid[r] = ""
    /\ st_ret' = [st_ret EXCEPT ![r] = st_new[r]]
    /\ st_pc' = [st_pc EXCEPT ![r] = "done"]
    /\ UNCHANGED <<user_profiles, st_uid, st_existing, st_new, st_wk, st_written, st_last>>
    /\ UNCHANGED <<exVars, kcVars, hVars, plVars, uiVars>>

\* update_user_profile: one store of the write into user_profiles[user_id].
StoreUpdateWrite(r) ==
    /\ st_pc[r] = "update"
    /\ st_uid[r] # ""
    /\ LET u == st_uid[r]
           stores == update_stores(get_user_profile(user_profiles, u), st_new[r])
           k == st_wk[r] + 1
       IN  /\ user_profiles' = DictSet(user_profiles, u, stores[k])
           /\ st_written' = [st_written EXCEPT ![u] = @ \cup {st_new[r]}]
           /\ IF k = Len(stores)
              THEN /\ st_pc' = [st_pc EXCEPT ![r] = "return"]
                   /\ st_last' = [st_last EXCEPT ![u] = [set |-> TRUE, val |-> st_new[r]]]
              ELSE UNCHANGED <<st_pc, st_last>>
           /\ st_wk' = [st_wk EXCEPT ![r] = k]
    /\ UNCHANGED <<st_uid, st_existing, st_new, st_ret>>
    /\ UNCHANGED <<exVars, kcVars, hVars, plVars, uiVars>>

\* update_user_profile: return user_profiles[user_id]
StoreUpdateReturn(r) ==
    /\ st_pc[r] = "return"
    /\ st_ret' = [st_ret EXCEPT ![r] = user_profiles[st_uid[r]]]
    /\ st_pc' = [st_pc EXCEPT ![r] = "done"]
    /\ UNCHANGED <<user_profiles, st_uid, st_existing, st_new, st_wk, st_written, st_last>>
    /\ UNCHANGED <<exVars, kcVars, hVars, plVars, uiVars>>

StoreNext ==
    \E r \in Requests :
        \/ StoreGet(r)
        \/ StoreExtract(r)
        \/ StoreExtractFailed(r)
        \/ StoreUpdateNoUser(r)
        \/ StoreUpdateWrite(r)
        \/ StoreUpdateReturn(r)

(***************************************************************************)
(* The Knowledge Council: the experts, their parallel dispatch and the     *)
(* loop that collects their results.                                       *)
(***************************************************************************)
\* (The bug: a fifth expert registered beside the fixed four.)
Experts_with_extra == {"general_health", "nutrition", "fitness", "mental_wellness", "cardiology"}

Experts == {"general_health", "nutrition", "fitness", "mental_wellness"}

\* sequences of distinct experts, of length 1..n
RECURSIVE DistinctSeqs(_, _)
DistinctSeqs(S, n) ==
    IF n = 0 THEN {<<>>}
    ELSE LET shorter == DistinctSeqs(S, n - 1)
         IN  shorter \cup
             {Append(q, e) : <<q, e>> \in
                 {p \in shorter \X S :
                     Len(p[1]) = n - 1 /\ \A i \in 1..Len(p[1]) : p[1][i] # p[2]}}

Range(q) == {q[i] : i \in 1..Len(q)}

\* What an expert's process_query returns when it succeeds: the references and
\* disclaimers of its structured output (title, content and subtopics are
\* carried as the title alone).
ExpertOutputs(e) ==
    {[title |-> e, references |-> refs, disclaimers |-> ds] :
        refs \in {<<>>, <<"r1">>, <<"r2", "r1">>}, ds \in {<<>>, <<"d1">>}}

NoOutput == [title |-> "", references |-> <<>>, disclaimers |-> <<>>]

\* future.result() returns or raises only once the call has settled
future_settled_nowait(status) == TRUE

\* (The bug: result() that comes back only for a call that succeeded.)
future_settled_success_only(status) == status = "ok"

future_settled(status) == status \in {"ok", "failed"}

\* "for future in future_to_expert": the dict's insertion order, which is the
\* order of required_experts.  (The bug: taking up futures as they complete.)
next_future_as_completed(required, collected, futures) ==
    {e \in Range(required) \ Range(collected) : futures[e] \in {"ok", "failed"}}

next_future(required, collected, futures) ==
    IF Len(collected) < Len(required) THEN {required[Len(collected) + 1]} ELSE {}

\* "except Exception as e: # Handle error...": the loop goes on to the next
\* future.  (The bug: no handler, the exception leaves the loop.)
on_expert_error_propagate == "raise"

on_expert_error == "continue"

\* (The bug: assigning the expert's list in place of extending the collection.)
list_extend_overwrite(list, items) == items

\* list.extend(items); the code skips the call for an empty items, which
\* leaves the list as it is either way
list_extend(list, items) == IF items # <<>> THEN list \o items ELSE list

CouncilIdle ==
    /\ kc_pc = "idle"
    /\ kc_required = <<>>
    /\ kc_future = [e \in Experts |-> "none"]
    /\ kc_result = [e \in Experts |-> NoOutput]
    /\ kc_collected = <<>>
    /\ expert_responses = [e \in {} |-> NoOutput]
    /\ all_references = <<>>
    /\ all_disclaimers = <<>>
    /\ kc_reverse = TRUE
    /\ kc_listed = <<>>
    /\ kc_cancelled = FALSE

\* consult is entered with the experts selected for the query
CouncilStart(selections) ==
    /\ kc_pc = "idle"
    /\ \E req \in selections : kc_required' = req
    /\ kc_pc' = "submit"
    /\ UNCHANGED <<kc_future, kc_result, kc_collected, expert_responses,
                   all_references, all_disclaimers, kc_reverse, kc_listed, kc_cancelled>>

\* executor.submit for every required expert
CouncilSubmit ==
    /\ kc_pc = "submit"
    /\ kc_future' = [e \in Experts |-> IF e \in Range(kc_required) THEN "running" ELSE "none"]
    /\ kc_pc' = "collect"
    /\ UNCHANGED <<kc_required, kc_result, kc_collected, expert_responses,
                   all_references, all_disclaimers, kc_reverse, kc_listed, kc_cancelled>>

PositionOf(q, e) == CHOOSE i \in 1..Len(q) : q[i] = e

\* An expert's process_query ends in its worker thread: it returns its output,
\* or raises (generation error, timeout, output that does not validate).
ExpertSettle(e, outputs) ==
    /\ kc_future[e] = "running"
    /\ \/ \E out \in outputs :
             /\ kc_future' = [kc_future EXCEPT ![e] = "ok"]
             /\ kc_result' = [kc_result EXCEPT ![e] = out]
       \/ /\ kc_future' = [kc_future EXCEPT ![e] = "failed"]
          /\ UNCHANGED kc_result
    /\ kc_reverse' =
          (kc_reverse /\ \A i \in 1..Len(kc_required) :
               IF i > PositionOf(kc_required, e)
               THEN kc_future[kc_required[i]] # "running"
               ELSE kc_future[kc_required[i]] = "running")
    /\ UNCHANGED <<kc_pc, kc_required, kc_collected, expert_responses,
                   all_references, all_disclaimers, kc_listed, kc_cancelled>>

\* One pass of the result loop: future.result(), then the three collections.
CouncilCollect ==
    /\ kc_pc = "collect"
    /\ \E e \in next_future(kc_required, kc_collected, kc_future) :
          /\ future_settled(kc_future[e])
          /\ kc_collected' = Append(kc_collected, e)
          /\ IF kc_future[e] = "ok"
             THEN /\ expert_responses' =
                        DictSet(expert_responses, e,
                                [kc_result[e] EXCEPT !.references = <<>>, !.disclaimers = <<>>])
                  /\ all_references' = list_extend(all_references, kc_result[e].references)
                  /\ all_disclaimers' = list_extend(all_disclaimers, kc_result[e].disclaimers)
                  /\ UNCHANGED kc_pc
             ELSE /\ kc_pc' = IF on_expert_error = "continue" THEN "collect" ELSE "raised"
                  /\ UNCHANGED <<expert_responses, all_references, all_disclaimers>>
    /\ UNCHANGED <<kc_required, kc_future, kc_result, kc_reverse, kc_listed, kc_cancelled>>

\* The loop is over, the executor's with-block waits for its workers, and the
\* council returns.
CouncilReturn ==
    /\ kc_pc = "collect"
    /\ Len(kc_collected) = Len(kc_required)
    /\ \A e \in Range(kc_required) : future_settled(kc_future[e])
    /\ kc_pc' = "returned"
    /\ UNCHANGED <<kc_required, kc_future, kc_result, kc_collected, expert_responses,
                   all_references, all_disclaimers, kc_reverse, kc_listed, kc_cancelled>>

\* exact-text de-duplication, first occurrence kept
RECURSIVE Dedup(_)
Dedup(q) ==
    IF q = <<>> THEN <<>>
    ELSE LET front == Dedup(SubSeq(q, 1, Len(q) - 1))
         IN  IF q[Len(q)] \in Range(front) THEN front ELSE Append(front, q[Len(q)])

\* the KnowledgeBundle consult hands back
KnowledgeBundle ==
    [experts |-> expert_responses,
     references |-> Dedup(all_references),
     disclaimers |-> Dedup(all_disclaimers)]

AllSelections == DistinctSeqs(Experts, Cardinality(Experts)) \ {<<>>}

CouncilNext ==
    \/ CouncilStart(AllSelections) /\ UNCHANGED <<exVars, stVars, hVars, plVars, uiVars>>
    \/ CouncilSubmit /\ UNCHANGED <<exVars, stVars, hVars, plVars, uiVars>>
    \/ \E e \in Experts : ExpertSettle(e, ExpertOutputs(e)) /\ UNCHANGED <<exVars, stVars, hVars, plVars, uiVars>>
    \/ CouncilCollect /\ UNCHANGED <<exVars, stVars, hVars, plVars, uiVars>>
    \/ CouncilReturn /\ UNCHANGED <<exVars, stVars, hVars, plVars, uiVars>>

(***************************************************************************)
(* Relevance selection: one generation call asks for a JSON array of       *)
(* expert names; the array is extracted from the text and the experts it   *)
(* names are the ones to consult.                                          *)
(***************************************************************************)
\* Texts the relevance call may return: an array of one name, of two names, an
\* empty array, an array inside prose, prose only, an object, a truncated array.
RelevanceTexts ==
    {<<"[", "v", "]">>, <<"[", "v", ",", "v", "]">>, <<"[", "]">>,
     <<"x", "[", "v", "]">>, <<"x">>, <<"{", "k", "v", "}">>, <<"[", "v", ",">>}

\* the strings the elements of the array may hold: names of experts, and a name
\* that is none of them
ListedNames == DistinctSeqs({"nutrition", "mental_wellness", "cardiology"}, 2)

\* the number of elements of an extracted array; 0 for a value that is no array
ArrayLength(value) ==
    IF value # <<>> /\ value[1] = "["
    THEN Cardinality({i \in 1..Len(value) : value[i] = "v"})
    ELSE 0

IsExpert(e) == e \in Experts

\* determine_required_experts(query): the names of known experts in the
\* extracted array, in its order; general_health alone when there is none
determine_required_experts(text, names) ==
    LET parsed == robust_json_parser(text)
        count == IF parsed.raised THEN 0 ELSE ArrayLength(parsed.value)
        known == SelectSeq(SubSeq(names, 1, count), IsExpert)
    IN  IF known = <<>> THEN <<"general_health">> ELSE known

\* consult is entered with a query: the relevance call returns its text and the
\* experts to consult are determined from it
CouncilSelect ==
    /\ kc_pc = "idle"
    /\ ex_pc = "idle"
    /\ \E text \in RelevanceTexts, names \in ListedNames :
          /\ Len(names) = ArrayLength(robust_json_parser(text).value)
          /\ ex_text' = text
          /\ ex_result' = robust_json_parser(text)
          /\ ex_pc' = "returned"
          /\ kc_listed' = names
          /\ kc_required' = determine_required_experts(text, names)
    /\ kc_pc' = "submit"
    /\ UNCHANGED <<kc_future, kc_result, kc_collected, expert_responses,
                   all_references, all_disclaimers, kc_reverse, kc_cancelled>>
    /\ UNCHANGED <<stVars, hVars, plVars, uiVars>>

\* consult has returned; the next query can come
CouncilFinish ==
    /\ kc_pc \in {"returned", "raised"}
    /\ kc_pc' = "idle"
    /\ kc_required' = <<>>
    /\ kc_future' = [e \in Experts |-> "none"]
    /\ kc_result' = [e \in Experts |-> NoOutput]
    /\ kc_collected' = <<>>
    /\ expert_responses' = [e \in {} |-> NoOutput]
    /\ all_references' = <<>>
    /\ all_disclaimers' = <<>>
    /\ kc_reverse' = TRUE
    /\ kc_listed' = <<>>
    /\ kc_cancelled' = FALSE
    /\ ex_text' = <<>>
    /\ ex_result' = NoResult
    /\ ex_pc' = "idle"
    /\ UNCHANGED <<stVars, hVars, plVars, uiVars>>

\* The client of the request disconnects while consult is under way.  Nothing in
\* consult looks at the connection: no future is cancelled and the loop goes on.
RequestCancelled ==
    /\ kc_pc \in {"submit", "collect"}
    /\ ~kc_cancelled
    /\ kc_cancelled' = TRUE
    /\ UNCHANGED <<kc_pc, kc_required, kc_future, kc_result, kc_collected, expert_responses,
                   all_references, all_disclaimers, kc_reverse, kc_listed>>
    /\ UNCHANGED <<exVars, stVars, hVars, plVars, uiVars>>

\* the steps consult takes by itself, once its futures allow them
CouncilCode ==
    (CouncilSubmit \/ CouncilCollect \/ CouncilReturn)
        /\ UNCHANGED <<exVars, stVars, hVars, plVars, uiVars>>

\* selections of one or two experts
ShortSelections == {q \in AllSelections : Len(q) <= 2}

CancelNext ==
    \/ CouncilStart(ShortSelections) /\ UNCHANGED <<exVars, stVars, hVars, plVars, uiVars>>
    \/ CouncilCode
    \/ \E e \in Experts : ExpertSettle(e, ExpertOutputs(e)) /\ UNCHANGED <<exVars, stVars, hVars, plVars, uiVars>>
    \/ RequestCancelled
    \/ CouncilFinish

SelectNext ==
    \/ CouncilSelect
    \/ CouncilSubmit /\ UNCHANGED <<exVars, stVars, hVars, plVars, uiVars>>
    \/ \E e \in Experts : ExpertSettle(e, ExpertOutputs(e)) /\ UNCHANGED <<exVars, stVars, hVars, plVars, uiVars>>
    \/ CouncilCollect /\ UNCHANGED <<exVars, stVars, hVars, plVars, uiVars>>
    \/ CouncilReturn /\ UNCHANGED <<exVars, stVars, hVars, plVars, uiVars>>
    \/ CouncilFinish

(***************************************************************************)
(* The Plan Generator's branching on plan_type.                            *)
(***************************************************************************)
PlanTypes == {"diet", "fitness", "general", "absent"}

\* The bug: "elif" for the second test, so a general plan gets no fitness plan.
generate_plan_elif(plan_type) ==
    LET pt == IF plan_type = "absent" THEN "general" ELSE plan_type
    IN  (IF pt \in {"diet", "general"} THEN {"diet_plan"}
         ELSE IF pt \in {"fitness", "general"} THEN {"fitness_plan"} ELSE {})
        \cup {"lifestyle_recommendations", "personalized_notes"}

\* generate_plan: the keys of plan_components for a request's plan_type
generate_plan(plan_type) ==
    LET pt == IF plan_type = "absent" THEN "general" ELSE plan_type
    IN  (IF pt \in {"diet", "general"} THEN {"diet_plan"} ELSE {})
        \cup (IF pt \in {"fitness", "general"} THEN {"fitness_plan"} ELSE {})
        \cup {"lifestyle_recommendations", "personalized_notes"}

\* plan_type values a request may carry: the three of the contract, none, and
\* a value that is none of the three
RequestPlanTypes == PlanTypes \cup {"lifestyle"}

Goals == {"absent", "lose weight"}

\* request.get("goal", "overall health improvement")
GoalOf(request) ==
    IF request.goal = "absent" THEN "overall health improvement" ELSE request.goal

\* Texts a sub-plan's generation call may return: the plan as JSON, the plan
\* wrapped in prose, and prose with no JSON in it.
SubPlanTexts == {<<"{", "k", "v", "}">>, <<"x", "{", "k", "v", "}">>, <<"x">>}

\* _generate_diet_plan / _generate_fitness_plan: the sub-plan made for a goal
\* and a profile from the text of its generation call; minimally populated
\* when no plan could be extracted from the text
sub_plan(goal, user_profile, text) ==
    [goal |-> goal, profile |-> user_profile,
     populated |-> IsFilledObject(robust_json_parser(text).value)]

\* _generate_lifestyle_recommendations / _generate_personalized_notes
plain_component(goal, user_profile) ==
    [goal |-> goal, profile |-> user_profile, populated |-> TRUE]

\* generate_plan(request, user_profile): plan_components, key by key
plan_components(request, user_profile, output) ==
    [key \in generate_plan(request.plan_type) |->
        CASE key = "diet_plan" -> sub_plan(GoalOf(request), user_profile, output.diet)
          [] key = "fitness_plan" -> sub_plan(GoalOf(request), user_profile, output.fitness)
          [] OTHER -> plain_component(GoalOf(request), user_profile)]

NoComponents == [key \in {} |-> plain_component("", EmptyProfile)]

NoPlanRequest == [plan_type |-> "absent", goal |-> "absent"]

NoPlanOutput == [diet |-> <<>>, fitness |-> <<>>]

PlanIdle ==
    /\ pl_pc = "idle"
    /\ pl_request = NoPlanRequest
    /\ pl_profile = EmptyProfile
    /\ pl_output = NoPlanOutput
    /\ pl_components = NoComponents

\* generate_plan is about to be called with some request and profile
PlanInit ==
    /\ pl_pc = "call"
    /\ pl_request \in [plan_type : RequestPlanTypes, goal : Goals]
    /\ pl_profile \in Profiles
    /\ pl_output \in [diet : SubPlanTexts, fitness : SubPlanTexts]
    /\ pl_components = NoComponents

PlanCall ==
    /\ pl_pc = "call"
    /\ pl_components' = plan_components(pl_request, pl_profile, pl_output)
    /\ pl_pc' = "returned"
    /\ UNCHANGED <<pl_request, pl_profile, pl_output>>
    /\ UNCHANGED <<exVars, stVars, kcVars, hVars, uiVars>>

(***************************************************************************)
(* MentalWellnessAgent.get_relief_exercises: the prompt it builds.  A      *)
(* user_profile is a Python dict, which keeps its keys in insertion order: *)
(* here a sequence of <<key, value>> pairs with distinct keys.  The value  *)
(* None is the string "None"; a missing profile (None) and the empty dict  *)
(* are both falsy and both <<>>.                                           *)
(***************************************************************************)
relevant_fields == {"age", "activity_level", "health_conditions"}

ReliefKeys == {"age", "activity_level", "dietary_restrictions"}

ReliefValues(k) ==
    CASE k = "age" -> {"30", "None"}
      [] k = "activity_level" -> {"high"}
      [] OTHER -> {"vegan", "keto"}

ReliefProfiles ==
    {p \in SeqsUpTo([key : ReliefKeys, value : {"30", "None", "high", "vegan", "keto"}], 3) :
        /\ \A i \in 1..Len(p) : p[i].value \in ReliefValues(p[i].key)
        /\ \A i, j \in 1..Len(p) : p[i].key = p[j].key => i = j}

ReliefQueries == {"breathing", "exam stress"}

IsRelevant(kv) == kv.key \in relevant_fields /\ kv.value # "None"

\* the context would embed every field of the profile
filtered_profile_all(user_profile) == user_profile

\* {k: v for k, v in user_profile.items() if k in relevant_fields and v is not None}
filtered_profile(user_profile) == SelectSeq(user_profile, IsRelevant)

\* json.dumps(d, indent=2): the entries of d, written in d's own order
json_dumps(d) == d

\* the two parts of the prompt that vary: the context and the query
relief_prompt(query, user_profile) ==
    [context |-> IF user_profile # <<>> /\ filtered_profile(user_profile) # <<>>
                    THEN <<json_dumps(filtered_profile(user_profile))>>
                    ELSE <<>>,
     query |-> query]

NoPrompt == [context |-> <<>>, query |-> ""]

Invocations == 1..2

ReliefIdle ==
    /\ mw_pc = [i \in Invocations |-> "idle"]
    /\ mw_query = ""
    /\ mw_profile = [i \in Invocations |-> <<>>]
    /\ mw_prompt = [i \in Invocations |-> NoPrompt]
    /\ mw_calls = [i \in Invocations |-> 0]

\* get_relief_exercises is about to be called twice with one query
ReliefInit ==
    /\ mw_pc = [i \in Invocations |-> "call"]
    /\ mw_query \in ReliefQueries
    /\ mw_profile \in [Invocations -> ReliefProfiles]
    /\ mw_prompt = [i \in Invocations |-> NoPrompt]
    /\ mw_calls = [i \in Invocations |-> 0]

\* one invocation: build the prompt, hand it to the generation client once
ReliefCall(i) ==
    /\ mw_pc[i] = "call"
    /\ mw_prompt' = [mw_prompt EXCEPT ![i] = relief_prompt(mw_query, mw_profile[i])]
    /\ mw_calls' = [mw_calls EXCEPT ![i] = @ + 1]
    /\ mw_pc' = [mw_pc EXCEPT ![i] = "returned"]
    /\ UNCHANGED <<mw_query, mw_profile>>
    /\ UNCHANGED <<exVars, stVars, kcVars, hVars, plVars, chVars, pnVars>>

ReliefNext == \E i \in Invocations : ReliefCall(i)


(***************************************************************************)
(* The chat client's reading of a /chat response (useChat.sendMessage).    *)
(***************************************************************************)
Apology == "Sorry, I'm having trouble connecting to the server. Please try again later."

\* The bug: no catch block, a failed request leaves no message.
assistant_message_no_catch(response) ==
    IF response.kind = "envelope"
    THEN [role |-> "assistant", content |-> response.chat_response, data |-> response.fields]
    ELSE [role |-> "", content |-> "", data |-> {}]

\* a non-OK status throws and the catch block adds the error message; an OK
\* body gives chat_response, dietPlan, fitnessPlan and knowledge
assistant_message(response) ==
    IF response.kind = "envelope"
    THEN [role |-> "assistant", content |-> response.chat_response, data |-> response.fields]
    ELSE [role |-> "assistant", content |-> Apology, data |-> {}]

(***************************************************************************)
(* The chat widget: the useChat hook (messages, isLoading, the             *)
(* 'chatMessages' entry of localStorage, sendMessage, clearChat) and the   *)
(* ChatInput form that calls sendMessage.  A message is a JavaScript       *)
(* object: a function from its own keys to values, "undefined" being the   *)
(* value undefined.                                                        *)
(***************************************************************************)
MaxSends == 3

Sends == 1..MaxSends

ChatTexts == {"", " ", "hi"}

\* String.prototype.trim
Trim(t) == IF t = " " THEN "" ELSE t

\* uuidv4(): a new identifier for every message
Uuid(role, n) ==
    IF role = "user" THEN <<"u1", "u2", "u3", "u4", "u5">>[n]
                     ELSE <<"a1", "a2", "a3", "a4", "a5">>[n]

userMessage(n, content) == [id |-> Uuid("user", n), role |-> "user", content |-> content]

\* data.response of an OK body: a field the server left out reads as undefined
ResponseObjects ==
    [chat_response : {"answer", "undefined"}, diet_plan : {"plan", "undefined"},
     fitness_plan : {"undefined"}, knowledge : {"facts", "undefined"}]

NoResponseObject ==
    [chat_response |-> "undefined", diet_plan |-> "undefined",
     fitness_plan |-> "undefined", knowledge |-> "undefined"]

\* the ways a /chat request settles: fetch rejects, a non-OK status, a body that
\* is not JSON, a JSON body without a response object, an OK body
Settlements ==
    {[kind |-> k, response |-> NoResponseObject] :
        k \in {"network", "status", "bad_json", "no_response"}}
    \cup {[kind |-> "ok", response |-> o] : o \in ResponseObjects}

assistantMessage(n, response) ==
    [id |-> Uuid("assistant", n), role |-> "assistant",
     content |-> response.chat_response, dietPlan |-> response.diet_plan,
     fitnessPlan |-> response.fitness_plan, knowledge |-> response.knowledge]

errorMessage(n) == [id |-> Uuid("assistant", n), role |-> "assistant", content |-> Apology]

\* (The bug: no catch block, a request that fails adds no message.)
settle_messages_no_catch(n, settlement) ==
    IF settlement.kind = "ok" THEN <<assistantMessage(n, settlement.response)>> ELSE <<>>

\* what the try/catch of sendMessage appends when the request settles
settle_messages(n, settlement) ==
    IF settlement.kind = "ok" THEN <<assistantMessage(n, settlement.response)>>
                              ELSE <<errorMessage(n)>>

\* (The bug: the new list is built from the new items alone.)
append_message_replace(prev, items) == items

\* setMessages(prev => [...prev, message])
append_message(prev, items) == prev \o items

\* (The bug: the effect does not depend on messages and never saves them.)
save_effect_never(storage, messages) == storage

\* JSON.stringify of one object: keys whose value is undefined are left out
StringifyObject(m) == [k \in {x \in DOMAIN m : m[x] # "undefined"} |-> m[k]]

\* JSON.stringify(messages)
JsonStringify(list) == [i \in 1..Len(list) |-> StringifyObject(list[i])]

NoEntry == [present |-> FALSE, parsable |-> FALSE, items |-> <<>>]

Unparsable == [present |-> TRUE, parsable |-> FALSE, items |-> <<>>]

\* the effect on [messages]: if (messages.length > 0) localStorage.setItem(...)
save_effect(storage, messages) ==
    IF Len(messages) > 0
       THEN [present |-> TRUE, parsable |-> TRUE, items |-> JsonStringify(messages)]
       ELSE storage

\* the effect on mount: getItem, and JSON.parse inside try/catch
load_effect(storage) ==
    IF storage.present /\ storage.parsable THEN storage.items ELSE <<>>

\* (The bug: the submit handler does not look at the text.)
handleSubmit_calls_any_text(message, isLoading) == ~isLoading

\* ChatInput.handleSubmit: if (message.trim() && !isLoading)
handleSubmit_calls(message, isLoading) == Trim(message) # "" /\ ~isLoading

\* <TextArea disabled={isLoading}>
TextAreaDisabled(isLoading) == isLoading

\* <SendButton disabled={!message.trim() || isLoading}>
SendButtonDisabled(message, isLoading) == Trim(message) = "" \/ isLoading

ChatMounted(storage) ==
    /\ ch_messages = load_effect(storage)
    /\ ch_isLoading = FALSE
    /\ ch_storage = save_effect(storage, load_effect(storage))
    /\ ch_req = [n \in Sends |-> "none"]
    /\ ch_sent = 0
    /\ ch_text = ""
    /\ ch_calls = {}
    /\ ch_cleared = FALSE

ChatIdle == ChatMounted(NoEntry)

\* the page is opened: nothing saved, or an entry that does not parse
ChatInit == \E storage \in {NoEntry, Unparsable} : ChatMounted(storage)

\* useChat.sendMessage(content)
sendMessage(content) ==
    IF Trim(content) = ""
    THEN UNCHANGED <<ch_messages, ch_isLoading, ch_storage, ch_req, ch_sent>>
    ELSE /\ ch_sent < MaxSends
         /\ ch_sent' = ch_sent + 1
         /\ ch_messages' = append_message(ch_messages, <<userMessage(ch_sent + 1, content)>>)
         /\ ch_isLoading' = TRUE
         /\ ch_req' = [ch_req EXCEPT ![ch_sent + 1] = "outstanding"]
         /\ ch_storage' = save_effect(ch_storage, ch_messages')

\* ChatInput.handleSubmit
handleSubmit ==
    /\ IF handleSubmit_calls(ch_text, ch_isLoading)
       THEN /\ sendMessage(ch_text)
            /\ ch_text' = ""
            /\ ch_calls' = ch_calls \cup {<<ch_text, ch_isLoading>>}
            /\ ch_cleared' = FALSE
       ELSE UNCHANGED chVars
    /\ UNCHANGED <<exVars, stVars, kcVars, hVars, plVars, mwVars, pnVars>>

\* the user edits the text
InputChange(t) ==
    /\ ~TextAreaDisabled(ch_isLoading)
    /\ t # ch_text
    /\ ch_text' = t
    /\ UNCHANGED <<ch_messages, ch_isLoading, ch_storage, ch_req, ch_sent, ch_calls,
                   ch_cleared>>
    /\ UNCHANGED <<exVars, stVars, kcVars, hVars, plVars, mwVars, pnVars>>

\* Enter without Shift in the text area
KeyDownEnter ==
    /\ ~TextAreaDisabled(ch_isLoading)
    /\ handleSubmit

\* a click on the send button
ClickSend ==
    /\ ~SendButtonDisabled(ch_text, ch_isLoading)
    /\ handleSubmit

\* a caller of the hook that awaits each call before the next
HookSend(content) ==
    /\ ~ch_isLoading
    /\ sendMessage(content)
    /\ ch_cleared' = FALSE
    /\ UNCHANGED <<ch_text, ch_calls>>
    /\ UNCHANGED <<exVars, stVars, kcVars, hVars, plVars, mwVars, pnVars>>

\* the request of call n settles: the rest of sendMessage runs
RequestSettles(n, settlement) ==
    /\ ch_req[n] = "outstanding"
    /\ ch_messages' = append_message(ch_messages, settle_messages(n, settlement))
    /\ ch_isLoading' = FALSE
    /\ ch_req' = [ch_req EXCEPT ![n] = "settled"]
    /\ ch_storage' = save_effect(ch_storage, ch_messages')
    /\ UNCHANGED <<ch_sent, ch_text, ch_calls, ch_cleared>>
    /\ UNCHANGED <<exVars, stVars, kcVars, hVars, plVars, mwVars, pnVars>>

\* useChat.clearChat, from the button of the chat window
clearChat ==
    /\ ch_messages' = <<>>
    /\ ch_storage' = save_effect(NoEntry, ch_messages')
    /\ ch_cleared' = TRUE
    /\ UNCHANGED <<ch_isLoading, ch_req, ch_sent, ch_text, ch_calls>>
    /\ UNCHANGED <<exVars, stVars, kcVars, hVars, plVars, mwVars, pnVars>>

\* the page is loaded again: the requests of the old page are gone, useChat
\* mounts and its two effects run
Reload ==
    /\ ch_messages' = load_effect(ch_storage)
    /\ ch_isLoading' = FALSE
    /\ ch_storage' = save_effect(ch_storage, ch_messages')
    /\ ch_req' = [n \in Sends |-> IF ch_req[n] = "outstanding" THEN "dropped" ELSE ch_req[n]]
    /\ ch_text' = ""
    /\ UNCHANGED <<ch_sent, ch_calls, ch_cleared>>
    /\ UNCHANGED <<exVars, stVars, kcVars, hVars, plVars, mwVars, pnVars>>

ChatNext ==
    \/ \E t \in ChatTexts : InputChange(t)
    \/ KeyDownEnter
    \/ ClickSend
    \/ \E n \in Sends, settlement \in Settlements : RequestSettles(n, settlement)
    \/ clearChat
    \/ Reload

HookNext ==
    \/ \E content \in ChatTexts : HookSend(content)
    \/ \E n \in Sends, settlement \in Settlements : RequestSettles(n, settlement)
    \/ clearChat
    \/ Reload


(***************************************************************************)
(* PlanNavigator and the FitnessPlan it shows.  A JavaScript value held by *)
(* a field of the plan data is a record: its type, and for an array the    *)
(* day of each element, for an object its keys, both in order.             *)
(***************************************************************************)
possibleScheduleFields ==
    <<"workout_schedule", "schedule", "structure", "workout_structure",
      "workout_details", "workouts", "weekly_schedule">>

Undefined == [type |-> "undefined", days |-> <<>>]

DayLists == {<<>>, <<"Monday">>, <<"Wednesday", "Monday">>}

\* the values a field that is present can hold: arrays, plain objects, a string
DefinedValues ==
    {[type |-> t, days |-> d] : t \in {"array", "object"}, d \in DayLists}
    \cup {[type |-> "string", days |-> <<>>]}

MaxFields == 2

\* the plan data: at most MaxFields of the candidate fields are present
FitnessData ==
    UNION {{[f \in Range(possibleScheduleFields) |-> IF f \in S THEN g[f] ELSE Undefined] :
               g \in [S -> DefinedValues]} :
            S \in {T \in SUBSET Range(possibleScheduleFields) : Cardinality(T) <= MaxFields}}

NoData == [f \in Range(possibleScheduleFields) |-> Undefined]

\* if (data[field]): every array, object and non-empty string is truthy
Truthy(value) == value.type # "undefined"

\* the first of the positions at which a loop over the fields stops, or 0
FirstIndex(positions) == IF positions = {} THEN 0 ELSE Least(positions)

FieldPositions == 1..Len(possibleScheduleFields)

\* the first loop breaks at a non-empty array and at any plain object
first_loop_stops(data, i) ==
    /\ Truthy(data[possibleScheduleFields[i]])
    /\ \/ /\ data[possibleScheduleFields[i]].type = "array"
          /\ Len(data[possibleScheduleFields[i]].days) > 0
       \/ data[possibleScheduleFields[i]].type = "object"

\* the second loop breaks at any array and at any object
second_loop_stops(data, i) ==
    /\ Truthy(data[possibleScheduleFields[i]])
    /\ data[possibleScheduleFields[i]].type \in {"array", "object"}

\* scheduleToDisplay as it is after both loops: the days, or null
scheduleToDisplay(data) ==
    LET i == FirstIndex({k \in FieldPositions : first_loop_stops(data, k)})
        first == IF i = 0 THEN [null |-> TRUE, days |-> <<>>, field |-> ""]
                 ELSE [null |-> FALSE, days |-> data[possibleScheduleFields[i]].days,
                       field |-> possibleScheduleFields[i]]
        j == FirstIndex({k \in FieldPositions : second_loop_stops(data, k)})
    IN  IF ~first.null /\ Len(first.days) > 0 THEN first
        ELSE IF j = 0 THEN first
        ELSE [null |-> FALSE, days |-> data[possibleScheduleFields[j]].days,
              field |-> possibleScheduleFields[j]]

NotRendered == [shown |-> "nothing", days |-> <<>>, field |-> ""]

NoScheduleNote == "No detailed weekly schedule found in the plan data."

\* FitnessPlan({ data }): the schedule part of what it renders
FitnessPlan(plan) ==
    IF plan.kind # "plan" THEN NotRendered
    ELSE LET schedule == scheduleToDisplay(plan.data)
         IN  IF ~schedule.null /\ Len(schedule.days) > 0
                THEN [shown |-> "days", days |-> schedule.days, field |-> schedule.field]
                ELSE [shown |-> NoScheduleNote, days |-> <<>>, field |-> ""]

Views == {"overview", "quick", "diet", "fitness"}

DietPlans == {"undefined", "null", "plan"}

FitnessPlans ==
    {[kind |-> "undefined", data |-> NoData]} \cup {[kind |-> "plan", data |-> d] : d \in FitnessData}

\* (The bug: the overview offers the diet plan whether or not there is one.)
NavTargets_diet_always(view, hasDiet, hasFitness) ==
    CASE view = "overview" ->
            {"diet"} \cup (IF hasFitness THEN {"fitness"} ELSE {})
            \cup (IF hasDiet /\ hasFitness THEN {"quick"} ELSE {})
      [] view = "quick" ->
            (IF hasDiet THEN {"diet"} ELSE {}) \cup (IF hasFitness THEN {"fitness"} ELSE {})
            \cup {"overview"}
      [] view = "diet" -> (IF hasFitness THEN {"fitness"} ELSE {}) \cup {"overview"}
      [] OTHER -> (IF hasDiet THEN {"diet"} ELSE {}) \cup {"overview"}

\* the views the buttons rendered in a view lead to
NavTargets(view, hasDiet, hasFitness) ==
    CASE view = "overview" ->
            (IF hasDiet THEN {"diet"} ELSE {}) \cup (IF hasFitness THEN {"fitness"} ELSE {})
            \cup (IF hasDiet /\ hasFitness THEN {"quick"} ELSE {})
      [] view = "quick" ->
            (IF hasDiet THEN {"diet"} ELSE {}) \cup (IF hasFitness THEN {"fitness"} ELSE {})
            \cup {"overview"}
      [] view = "diet" -> (IF hasFitness THEN {"fitness"} ELSE {}) \cup {"overview"}
      [] OTHER -> (IF hasDiet THEN {"diet"} ELSE {}) \cup {"overview"}

HasDiet == pn_dietPlan = "plan"

HasFitness == pn_fitnessPlan.kind = "plan"

NavIdle ==
    /\ pn_view = "overview"
    /\ pn_dietPlan = "undefined"
    /\ pn_fitnessPlan = [kind |-> "undefined", data |-> NoData]
    /\ fp_display = NotRendered

\* PlanNavigator is mounted with some props
NavInit ==
    /\ pn_view = "overview"
    /\ pn_dietPlan \in DietPlans
    /\ pn_fitnessPlan \in FitnessPlans
    /\ fp_display = NotRendered

\* a click on one of the buttons of the current view
NavClick(target) ==
    /\ target \in NavTargets(pn_view, HasDiet, HasFitness)
    /\ pn_view' = target
    /\ fp_display' = IF target = "fitness" THEN FitnessPlan(pn_fitnessPlan) ELSE NotRendered
    /\ UNCHANGED <<pn_dietPlan, pn_fitnessPlan>>
    /\ UNCHANGED <<exVars, stVars, kcVars, hVars, plVars, mwVars, chVars>>

NavNext == \E target \in Views : NavClick(target)

UiIdle == ReliefIdle /\ ChatIdle /\ NavIdle

(***************************************************************************)
(* The Orchestrator: handle(message, user_id).                             *)
(***************************************************************************)
Subsystems == {"knowledge_query", "plan_generator", "mental_wellness"}

Branches == Subsystems \cup {"profile_manager"}

Intents == {"knowledge_query", "plan_request", "profile_update", "mental_wellness", "other"}

Decisions ==
    [intent_category : Intents, required_subsystems : SUBSET Subsystems,
     profile_extraction_needed : BOOLEAN]

\* the default/empty RoutingDecision
DefaultDecision ==
    [intent_category |-> "", required_subsystems |-> {},
     profile_extraction_needed |-> FALSE]

\* Texts the Strategist's generation call may return: the bare JSON decision,
\* the decision wrapped in prose, a truncated decision, prose only, prose with
\* stray braces, and an empty object.
StrategistTexts ==
    {<<"{", "k", "v", "}">>, <<"x", "{", "k", "v", "}", "x">>, <<"{", "k", "v">>,
     <<"x">>, <<"x", "{", "x", "}">>, <<"{", "}">>}

\* the RoutingDecision read from a parsed value whose object encodes `encoded`
DecisionFrom(value, encoded) == IF IsFilledObject(value) THEN encoded ELSE DefaultDecision

\* the safe fallback of the Strategist contract
WithFallback(decision) ==
    IF decision.required_subsystems = {}
    THEN [decision EXCEPT !.intent_category = "other",
                          !.required_subsystems = {"knowledge_query"}]
    ELSE decision

HandleUser == "u1"

NoResponse == [kind |-> "none", chat_response |-> "", fields |-> {}]

NoReply == [role |-> "", content |-> "", data |-> {}]

HandleIdle ==
    /\ h_pc = "idle"
    /\ h_gen_up = TRUE
    /\ h_profile = EmptyProfile
    /\ h_decision = DefaultDecision
    /\ h_raw = DefaultDecision
    /\ h_branch = [b \in Branches |-> "none"]
    /\ h_plan_type = "absent"
    /\ h_plan = {}
    /\ h_response = NoResponse
    /\ h_reply = NoReply
    /\ h_calls = 0
    /\ h_alias = FALSE

\* Step 1: a message arrives; the profile of its user is loaded.
HandleStart ==
    /\ h_pc = "idle"
    /\ h_gen_up' \in BOOLEAN
    /\ h_profile' = get_user_profile(user_profiles, HandleUser)
    /\ h_alias' = returns_stored_dict(user_profiles, HandleUser)
    /\ h_calls' = 0
    /\ h_pc' = "route"
    /\ UNCHANGED <<h_decision, h_raw, h_branch, h_plan_type, h_plan, h_response, h_reply>>
    /\ UNCHANGED <<exVars, stVars, kcVars, plVars, uiVars>>

Respond(response) ==
    /\ h_response' = response
    /\ h_reply' = assistant_message(response)
    /\ h_pc' = "returned"

\* Step 2 with the Generation Client out of reach: the request fails as a whole.
HandleUnavailable ==
    /\ h_pc = "route"
    /\ ~h_gen_up
    /\ Respond([kind |-> "failure", chat_response |-> "", fields |-> {}])
    /\ h_calls' = h_calls + 1
    /\ UNCHANGED <<h_gen_up, h_profile, h_decision, h_raw, h_branch, h_plan_type, h_plan,
                   h_alias>>
    /\ UNCHANGED <<exVars, stVars, kcVars, plVars, uiVars>>

\* (The bug: a failed call is tried again.)
HandleRouteFailed_retry ==
    /\ h_pc = "route"
    /\ h_gen_up
    /\ h_calls < 2
    /\ h_calls' = h_calls + 1
    /\ UNCHANGED <<h_pc, h_gen_up, h_profile, h_decision, h_raw, h_branch, h_plan_type,
                   h_plan, h_response, h_reply, h_alias>>
    /\ UNCHANGED <<exVars, stVars, kcVars, plVars, uiVars>>

\* Step 2: the Strategist's one generation call fails or times out.
HandleRouteFailed ==
    /\ h_pc = "route"
    /\ h_gen_up
    /\ h_decision' = WithFallback(DefaultDecision)
    /\ h_raw' = DefaultDecision
    /\ h_pc' = "dispatch"
    /\ h_calls' = h_calls + 1
    /\ UNCHANGED <<h_gen_up, h_profile, h_branch, h_plan_type, h_plan, h_response, h_reply,
                   h_alias>>
    /\ UNCHANGED <<exVars, stVars, kcVars, plVars, uiVars>>

\* Step 2: the Strategist's call returns text; the decision is extracted from it.
HandleRoute ==
    /\ h_pc = "route"
    /\ h_gen_up
    /\ \E text \in StrategistTexts, encoded \in Decisions :
          LET parsed == robust_json_parser(text)
              decision == DecisionFrom(parsed.value, encoded)
          IN  IF parsed.raised
              THEN /\ Respond([kind |-> "error", chat_response |-> "", fields |-> {}])
                   /\ UNCHANGED <<h_decision, h_raw>>
              ELSE /\ h_decision' = WithFallback(decision)
                   /\ h_raw' = decision
                   /\ h_pc' = "dispatch"
                   /\ UNCHANGED <<h_response, h_reply>>
    /\ h_calls' = h_calls + 1
    /\ UNCHANGED <<h_gen_up, h_profile, h_branch, h_plan_type, h_plan, h_alias>>
    /\ UNCHANGED <<exVars, stVars, kcVars, plVars, uiVars>>

\* Expert selections the relevance step hands to the dispatch: the default
\* single expert, and two experts in either order.
HandleSelections ==
    {<<"general_health">>, <<"nutrition", "fitness">>, <<"mental_wellness", "nutrition">>}

\* (The bug: the Profile Manager is started for every message.)
Dispatched_always_profile(decision) ==
    decision.required_subsystems \cup {"profile_manager"}

Dispatched(decision) ==
    decision.required_subsystems \cup
    (IF decision.profile_extraction_needed THEN {"profile_manager"} ELSE {})

\* Steps 3 and 4: every required subsystem, and the Profile Manager when the
\* decision asks for it, is started; the Knowledge Council enters consult.
HandleDispatch ==
    /\ h_pc = "dispatch"
    /\ h_branch' = [b \in Branches |-> IF b \in Dispatched(h_decision) THEN "running" ELSE "none"]
    /\ IF "knowledge_query" \in h_decision.required_subsystems
       THEN CouncilStart(HandleSelections)
       ELSE UNCHANGED kcVars
    /\ h_pc' = "running"
    /\ UNCHANGED <<h_gen_up, h_profile, h_decision, h_raw, h_plan_type, h_plan, h_response,
                   h_reply, h_calls, h_alias>>
    /\ UNCHANGED <<exVars, stVars, plVars, uiVars>>

\* The Knowledge Council branch ends when consult returns (or raises).
KnowledgeSettle ==
    /\ h_pc = "running"
    /\ h_branch["knowledge_query"] = "running"
    /\ kc_pc \in {"returned", "raised"}
    /\ h_branch' = [h_branch EXCEPT !["knowledge_query"] =
                        IF kc_pc = "returned" THEN "ok" ELSE "failed"]
    /\ UNCHANGED <<h_pc, h_gen_up, h_profile, h_decision, h_raw, h_plan_type, h_plan,
                   h_response, h_reply, h_calls, h_alias>>
    /\ UNCHANGED <<exVars, stVars, kcVars, plVars, uiVars>>

\* The Plan Generator branch ends: a plan for the request's plan_type, or a failure.
PlanSettle ==
    /\ h_pc = "running"
    /\ h_branch["plan_generator"] = "running"
    /\ \/ \E pt \in PlanTypes :
             /\ h_plan_type' = pt
             /\ \/ /\ h_plan' = generate_plan(pt)
                   /\ h_branch' = [h_branch EXCEPT !["plan_generator"] = "ok"]
                \/ /\ h_branch' = [h_branch EXCEPT !["plan_generator"] = "failed"]
                   /\ UNCHANGED h_plan
    /\ UNCHANGED <<h_pc, h_gen_up, h_profile, h_decision, h_raw, h_response, h_reply,
                   h_calls, h_alias>>
    /\ UNCHANGED <<exVars, stVars, kcVars, plVars, uiVars>>

\* The Mental Wellness branch ends.
MentalSettle ==
    /\ h_pc = "running"
    /\ h_branch["mental_wellness"] = "running"
    /\ \E outcome \in {"ok", "failed"} :
          h_branch' = [h_branch EXCEPT !["mental_wellness"] = outcome]
    /\ UNCHANGED <<h_pc, h_gen_up, h_profile, h_decision, h_raw, h_plan_type, h_plan,
                   h_response, h_reply, h_calls, h_alias>>
    /\ UNCHANGED <<exVars, stVars, kcVars, plVars, uiVars>>

ExtractedProfiles == {[age |-> 30], [weight |-> 150], [age |-> 31, weight |-> 150]}

\* The Profile Manager branch ends: the extracted fields are stored, or it failed.
ProfileSettle ==
    /\ h_pc = "running"
    /\ h_branch["profile_manager"] = "running"
    /\ \/ \E e \in ExtractedProfiles :
             LET stores == update_stores(get_user_profile(user_profiles, HandleUser), e)
             IN  /\ user_profiles' = DictSet(user_profiles, HandleUser, stores[Len(stores)])
                 /\ h_alias' = (h_alias /\ ~update_binds_new_dict)
                 /\ h_branch' = [h_branch EXCEPT !["profile_manager"] = "ok"]
       \/ /\ h_branch' = [h_branch EXCEPT !["profile_manager"] = "failed"]
          /\ UNCHANGED <<user_profiles, h_alias>>
    /\ UNCHANGED <<h_pc, h_gen_up, h_profile, h_decision, h_raw, h_plan_type, h_plan,
                   h_response, h_reply, h_calls>>
    /\ UNCHANGED <<exVars, stReqVars, kcVars, plVars, uiVars>>

EnvelopeFields ==
    (IF h_branch["knowledge_query"] = "ok" THEN {"knowledge"} ELSE {})
    \cup (IF h_branch["plan_generator"] = "ok"
          THEN h_plan \cap {"diet_plan", "fitness_plan"} ELSE {})

\* Steps 5 and 6: once every dispatched branch has settled, the envelope is
\* merged from the branches that succeeded and returned.
HandleMerge ==
    /\ h_pc = "running"
    /\ \A b \in Branches : h_branch[b] \in {"none", "ok", "failed"}
    /\ Respond([kind |-> "envelope", chat_response |-> "narrative", fields |-> EnvelopeFields])
    /\ UNCHANGED <<h_gen_up, h_profile, h_decision, h_raw, h_branch, h_plan_type, h_plan,
                   h_calls, h_alias>>
    /\ UNCHANGED <<exVars, stVars, kcVars, plVars, uiVars>>

\* The response is out; the next message can be handled.
HandleDone ==
    /\ h_pc = "returned"
    /\ h_pc' = "idle"
    /\ h_gen_up' = TRUE
    /\ h_profile' = EmptyProfile
    /\ h_decision' = DefaultDecision
    /\ h_raw' = DefaultDecision
    /\ h_branch' = [b \in Branches |-> "none"]
    /\ h_plan_type' = "absent"
    /\ h_plan' = {}
    /\ h_response' = NoResponse
    /\ h_reply' = NoReply
    /\ h_calls' = 0
    /\ h_alias' = FALSE
    /\ kc_pc' = "idle"
    /\ kc_required' = <<>>
    /\ kc_future' = [e \in Experts |-> "none"]
    /\ kc_result' = [e \in Experts |-> NoOutput]
    /\ kc_collected' = <<>>
    /\ expert_responses' = [e \in {} |-> NoOutput]
    /\ all_references' = <<>>
    /\ all_disclaimers' = <<>>
    /\ kc_reverse' = TRUE
    /\ kc_listed' = <<>>
    /\ kc_cancelled' = FALSE
    /\ UNCHANGED <<exVars, stVars, plVars, uiVars>>

SmallOutputs(e) == {[title |-> e, references |-> <<"r1">>, disclaimers |-> <<"d1">>]}

Next ==
    \/ HandleStart
    \/ HandleUnavailable
    \/ HandleRouteFailed
    \/ HandleRoute
    \/ HandleDispatch
    \/ CouncilSubmit /\ UNCHANGED <<exVars, stVars, hVars, plVars, uiVars>>
    \/ \E e \in Experts : ExpertSettle(e, SmallOutputs(e)) /\ UNCHANGED <<exVars, stVars, hVars, plVars, uiVars>>
    \/ CouncilCollect /\ UNCHANGED <<exVars, stVars, hVars, plVars, uiVars>>
    \/ CouncilReturn /\ UNCHANGED <<exVars, stVars, hVars, plVars, uiVars>>
    \/ KnowledgeSettle
    \/ PlanSettle
    \/ MentalSettle
    \/ ProfileSettle
    \/ HandleMerge
    \/ HandleDone

(***************************************************************************)
(* Specifications.                                                         *)
(***************************************************************************)
InitExtract == ExtractInit /\ StoreInit /\ CouncilIdle /\ HandleIdle /\ PlanIdle /\ UiIdle

SpecExtract == InitExtract /\ [][ParserCall]_vars

InitStore == ExtractIdle /\ StoreInit /\ CouncilIdle /\ HandleIdle /\ PlanIdle /\ UiIdle

SpecStore == InitStore /\ [][StoreNext]_vars

InitCouncil == ExtractIdle /\ StoreInit /\ CouncilIdle /\ HandleIdle /\ PlanIdle /\ UiIdle

SpecCouncil == InitCouncil /\ [][CouncilNext]_vars

Init == ExtractIdle /\ StoreInit /\ CouncilIdle /\ HandleIdle /\ PlanIdle /\ UiIdle

Spec == Init /\ [][Next]_vars

InitPlan == ExtractIdle /\ StoreInit /\ CouncilIdle /\ HandleIdle /\ PlanInit /\ UiIdle

SpecPlan == InitPlan /\ [][PlanCall]_vars

InitCancel == ExtractIdle /\ StoreInit /\ CouncilIdle /\ HandleIdle /\ PlanIdle /\ UiIdle

\* consult with a client that may disconnect; the code's own steps are taken when
\* they can be, a generation call may stay outstanding for ever (no call in the
\* code carries a timeout)
SpecCancel == InitCancel /\ [][CancelNext]_vars /\ WF_vars(CouncilCode)

InitSelect == ExtractIdle /\ StoreInit /\ CouncilIdle /\ HandleIdle /\ PlanIdle /\ UiIdle

SpecSelect == InitSelect /\ [][SelectNext]_vars

\* handle under the premise that every generation call settles and every step
\* that can be taken is eventually taken
InitRelief ==
    /\ ExtractIdle /\ StoreInit /\ CouncilIdle /\ HandleIdle /\ PlanIdle
    /\ ReliefInit /\ ChatIdle /\ NavIdle

\* get_relief_exercises called twice with the same query
SpecRelief == InitRelief /\ [][ReliefNext]_vars

InitChat ==
    /\ ExtractIdle /\ StoreInit /\ CouncilIdle /\ HandleIdle /\ PlanIdle
    /\ ReliefIdle /\ ChatInit /\ NavIdle

\* the chat widget: the user types, submits, clears and reloads; requests settle
SpecChat == InitChat /\ [][ChatNext]_vars

\* the hook called directly
SpecHook == InitChat /\ [][HookNext]_vars

InitNav ==
    /\ ExtractIdle /\ StoreInit /\ CouncilIdle /\ HandleIdle /\ PlanIdle
    /\ ReliefIdle /\ ChatIdle /\ NavInit

\* PlanNavigator with fixed props: the user clicks through the views
SpecNav == InitNav /\ [][NavNext]_vars

InitLive == ExtractIdle /\ StoreInit /\ CouncilIdle /\ HandleIdle /\ PlanIdle /\ UiIdle

SpecLive == InitLive /\ [][Next]_vars /\ WF_vars(Next)

(***************************************************************************)
(* Classes of malformed generation output.                                 *)
(***************************************************************************)
ValidDocs == {u \in Texts : JsonLoads(u).ok}

IsPrefix(t, u) == Len(t) < Len(u) /\ SubSeq(u, 1, Len(t)) = t

\* no JSON present: no stretch of the text is a JSON object or array
NoJsonPresent(t) ==
    /\ ~JsonLoads(t).ok
    /\ \A i \in 1..Len(t) : \A j \in i..Len(t) :
          t[i] \in {"{", "["} => ~JsonLoads(SubSeq(t, i, j)).ok

\* partial JSON: a truncated object (a proper, non-empty prefix of a document)
PartialObject(t) ==
    /\ t # <<>>
    /\ ~JsonLoads(t).ok
    /\ \E u \in ValidDocs : u[1] = "{" /\ IsPrefix(t, u)

\* partial JSON of any kind: a truncated object or a truncated array
PartialJson(t) ==
    /\ t # <<>>
    /\ ~JsonLoads(t).ok
    /\ \E u \in ValidDocs : IsPrefix(t, u)

ProseTokens == {"x", ",", "v"}

\* JSON object d followed by extra trailing prose
ObjectThenProse(t, d) ==
    /\ d[1] = "{"
    /\ IsPrefix(d, t)
    /\ \A i \in (Len(d) + 1)..Len(t) : t[i] \in ProseTokens

TrailingProse(t) == \E d \in ValidDocs : ObjectThenProse(t, d)

Malformed(t) == NoJsonPresent(t) \/ PartialJson(t) \/ TrailingProse(t)

\* The substring from the leftmost opening brace to the rightmost closing brace,
\* stated without the regular expression.
BraceSubstrings(t) ==
    {SubSeq(t, i, j) : <<i, j>> \in
        {p \in (1..Len(t)) \X (1..Len(t)) :
            /\ p[1] < p[2]
            /\ t[p[1]] = "{" /\ \A h \in 1..(p[1] - 1) : t[h] # "{"
            /\ t[p[2]] = "}" /\ \A h \in (p[2] + 1)..Len(t) : t[h] # "}"}}

BraceSubstringParses(t) == \E s \in BraceSubstrings(t) : JsonLoads(s).ok

(***************************************************************************)
(* C5 (as stated): every malformed output (no JSON, partial JSON, JSON     *)
(* with trailing prose) yields the default instance and never an           *)
(* exception.                                                              *)
(***************************************************************************)
C5_MalformedGivesDefault ==
    (ex_pc = "returned" /\ Malformed(ex_text)) =>
        (~ex_result.raised /\ ex_result.value = EmptyDict)

(***************************************************************************)
(* C5 (amended): the parser never raises on any text; an output with no    *)
(* JSON in it and a truncated object yield the default {}; a JSON object   *)
(* followed by trailing prose yields that object, recovered by the second  *)
(* tier; and in general a malformed output yields the default unless its   *)
(* leftmost-"{"-to-rightmost-"}" substring is itself a JSON document.      *)
(***************************************************************************)
C5_MalformedNeverThrows ==
    ex_pc = "returned" =>
        /\ ~ex_result.raised
        /\ (NoJsonPresent(ex_text) \/ PartialObject(ex_text)) =>
              ex_result.value = EmptyDict
        /\ \A d \in ValidDocs : ObjectThenProse(ex_text, d) =>
              ex_result.value = JsonLoads(d).val
        /\ (Malformed(ex_text) /\ ~BraceSubstringParses(ex_text)) =>
              ex_result.value = EmptyDict

\* C5 witness: a non-empty JSON object followed by prose came back as the object.
C5_Witness ==
    /\ ex_pc = "returned"
    /\ TrailingProse(ex_text)
    /\ ~ex_result.raised
    /\ ex_result.value # EmptyDict

(***************************************************************************)
(* C6 (as stated): first success wins, and the default instance comes back *)
(* only when both parses failed, together with an extraction-failure       *)
(* signal.  The return value is all the caller gets, so the signal is      *)
(* "the value is the default instance".                                    *)
(***************************************************************************)
C6_FailureIsSignalled ==
    ex_pc = "returned" =>
        ((ex_result.value = EmptyDict) <=> (ex_result.tier = 3))

(***************************************************************************)
(* C6 (amended): the tiers apply in order and the first success wins: a    *)
(* text that parses as a whole (as any JSON value) returns that value;     *)
(* otherwise a parsable leftmost-"{"-to-rightmost-"}" substring returns    *)
(* its value; otherwise {} is returned, with no separate failure signal.   *)
(***************************************************************************)
C6_FirstSuccessWins ==
    ex_pc = "returned" =>
        /\ ~ex_result.raised
        /\ JsonLoads(ex_text).ok =>
              (ex_result.tier = 1 /\ ex_result.value = JsonLoads(ex_text).val)
        /\ (~JsonLoads(ex_text).ok /\ BraceSubstringParses(ex_text)) =>
              /\ ex_result.tier = 2
              /\ \E s \in BraceSubstrings(ex_text) :
                    JsonLoads(s).ok /\ ex_result.value = JsonLoads(s).val
        /\ (~JsonLoads(ex_text).ok /\ ~BraceSubstringParses(ex_text)) =>
              (ex_result.tier = 3 /\ ex_result.value = EmptyDict)

\* C6 witness: the whole text did not parse and the brace substring did.
C6_Witness ==
    /\ ex_pc = "returned"
    /\ ~JsonLoads(ex_text).ok
    /\ ex_result.tier = 2
    /\ ex_result.value # EmptyDict

WriteInProgress(r) == st_pc[r] = "update" /\ st_wk[r] > 0

C8_AtomicPerUser ==
    /\ \A r \in Requests :
          /\ st_pc[r] # "idle" =>
                st_existing[r] \in {EmptyProfile} \cup st_written[st_uid[r]]
          /\ (st_pc[r] = "done" /\ st_uid[r] # "") =>
                st_ret[r] \in st_written[st_uid[r]]
    /\ \A u \in DOMAIN user_profiles : user_profiles[u] \in st_written[u]
    /\ \A r1, r2 \in Requests :
          (WriteInProgress(r1) /\ WriteInProgress(r2)) => r1 = r2
    /\ (\A r \in Requests : ~WriteInProgress(r)) =>
          \A u \in UserIds :
             st_last[u].set => get_user_profile(user_profiles, u) = st_last[u].val

\* C8 witness: two requests of one user interleaved; the second read the first's
\* write, and the first's update returned the second's.
C8_Witness ==
    \E r1, r2 \in Requests :
        /\ r1 # r2
        /\ st_pc[r1] = "done" /\ st_pc[r2] = "done"
        /\ st_uid[r1] = "u1" /\ st_uid[r2] = "u1"
        /\ st_new[r1] # st_new[r2]
        /\ st_existing[r2] = st_new[r1]
        /\ st_ret[r1] = st_new[r2]
        /\ user_profiles["u1"] = st_new[r2]

(***************************************************************************)
(* C2: for every non-empty selection of experts and every combination of   *)
(* expert successes and failures, consult never raises and never gets      *)
(* stuck, and returns a bundle whose expert keys are exactly the selected  *)
(* experts whose call succeeded, each with its own answer; when every      *)
(* expert failed the bundle is the empty one.                              *)
(***************************************************************************)
Succeeded == {e \in Range(kc_required) : kc_future[e] = "ok"}

EmptyBundle ==
    [experts |-> [e \in {} |-> NoOutput], references |-> <<>>, disclaimers |-> <<>>]

C2_BundleIsSucceededSubset ==
    /\ kc_pc # "raised"
    /\ (kc_pc = "collect" /\ \A e \in Range(kc_required) : kc_future[e] # "running") =>
          ENABLED (CouncilCollect \/ CouncilReturn)
    /\ kc_pc = "returned" =>
          /\ DOMAIN KnowledgeBundle.experts = Succeeded
          /\ \A e \in Succeeded : KnowledgeBundle.experts[e].title = kc_result[e].title
          /\ Succeeded = {} => KnowledgeBundle = EmptyBundle

\* C2 witness: the first expert submitted failed, a later one succeeded, and the
\* bundle returned holds exactly the one that succeeded.
C2_Witness ==
    /\ kc_pc = "returned"
    /\ Len(kc_required) >= 2
    /\ kc_future[kc_required[1]] = "failed"
    /\ kc_future[kc_required[2]] = "ok"
    /\ kc_required[2] \in DOMAIN KnowledgeBundle.experts
    /\ kc_required[1] \notin DOMAIN KnowledgeBundle.experts

(***************************************************************************)
(* C4: the bundle consult returns is a function of the selection and of    *)
(* the experts' outcomes alone: it equals the bundle built by going        *)
(* through the selection front to back, in whatever order the concurrent   *)
(* calls completed (in reverse submission order, in particular).           *)
(***************************************************************************)
RECURSIVE ForwardMerge(_, _, _)
ForwardMerge(required, futures, results) ==
    IF required = <<>> THEN [experts |-> <<>>, references |-> <<>>, disclaimers |-> <<>>]
    ELSE LET e == required[Len(required)]
             front == ForwardMerge(SubSeq(required, 1, Len(required) - 1), futures, results)
         IN  IF futures[e] = "ok"
             THEN [experts |-> Append(front.experts, e),
                   references |-> front.references \o results[e].references,
                   disclaimers |-> front.disclaimers \o results[e].disclaimers]
             ELSE front

Routed == h_pc \in {"dispatch", "running"} \/ (h_pc = "returned" /\ h_response.kind = "envelope")

BranchesStarted == {b \in Branches : h_branch[b] # "none"}

AllExpertsSettled == \A e \in Range(kc_required) : kc_future[e] \in {"ok", "failed"}

C3_MergeStartsAfterAllSettled == kc_collected # <<>> => AllExpertsSettled

(***************************************************************************)
(* C3 (amended): the Knowledge Council takes up an expert's result only    *)
(* after that expert's call has settled (it merges in submission order,    *)
(* possibly while later experts are still running) and returns only after  *)
(* every dispatched expert call has settled and been taken up; the         *)
(* Orchestrator merges and returns the envelope only after every branch it *)
(* dispatched, the Profile Manager included, has settled.                  *)
(***************************************************************************)
C3_FanInIsFullBarrier ==
    /\ \A e \in Range(kc_collected) : kc_future[e] \in {"ok", "failed"}
    /\ kc_pc = "returned" =>
          (AllExpertsSettled /\ Range(kc_collected) = Range(kc_required))
    /\ (h_pc = "returned" /\ h_response.kind = "envelope") =>
          /\ \A b \in Dispatched(h_decision) : h_branch[b] \in {"ok", "failed"}
          /\ "knowledge_query" \in Dispatched(h_decision) =>
                (kc_pc \in {"returned", "raised"} /\ AllExpertsSettled)

\* C3 witness: an envelope returned after two experts, the Plan Generator and the
\* Profile Manager had all been dispatched and had all settled.
C3_Witness ==
    /\ h_pc = "returned"
    /\ h_response.kind = "envelope"
    /\ Len(kc_required) = 2
    /\ kc_pc = "returned"
    /\ {"knowledge_query", "plan_generator", "profile_manager"} \subseteq Dispatched(h_decision)
    /\ h_branch["plan_generator"] = "failed"
    /\ h_branch["profile_manager"] = "ok"

(***************************************************************************)
(* C9: while the Generation Client can be reached, whatever subsystems     *)
(* fail, handle is never stuck at the merge and returns an envelope, never *)
(* an error; the envelope holds knowledge exactly when the Knowledge       *)
(* Council succeeded, and diet_plan (fitness_plan) exactly when the Plan   *)
(* Generator succeeded on a plan_type that calls for it.                   *)
(***************************************************************************)
PlanTypeOf(pt) == IF pt = "absent" THEN "general" ELSE pt

C9_BestEffortEnvelope ==
    /\ (h_pc = "running" /\ \A b \in Branches : h_branch[b] # "running") =>
          ENABLED HandleMerge
    /\ (h_pc = "returned" /\ h_gen_up) =>
          /\ h_response.kind = "envelope"
          /\ "knowledge" \in h_response.fields <=> h_branch["knowledge_query"] = "ok"
          /\ "diet_plan" \in h_response.fields <=>
                (h_branch["plan_generator"] = "ok"
                 /\ PlanTypeOf(h_plan_type) \in {"diet", "general"})
          /\ "fitness_plan" \in h_response.fields <=>
                (h_branch["plan_generator"] = "ok"
                 /\ PlanTypeOf(h_plan_type) \in {"fitness", "general"})

\* C9 witness: the Plan Generator, Mental Wellness and the Profile Manager failed,
\* every expert failed, and the envelope came back with the (empty) knowledge
\* bundle alone.
C9_Witness ==
    /\ h_pc = "returned"
    /\ h_gen_up
    /\ h_branch["plan_generator"] = "failed"
    /\ h_branch["mental_wellness"] = "failed"
    /\ h_branch["profile_manager"] = "failed"
    /\ h_branch["knowledge_query"] = "ok"
    /\ Succeeded = {}
    /\ h_response = [kind |-> "envelope", chat_response |-> "narrative", fields |-> {"knowledge"}]

(***************************************************************************)
(* C10: a request fails as a whole exactly when the Generation Client      *)
(* cannot be reached: the caller then gets the apology message and no      *)
(* knowledge, diet_plan or fitness_plan; a degraded extraction (the        *)
(* default routing decision included) and omitted subsystems or experts    *)
(* end in an envelope, never in an error or an apology.                    *)
(***************************************************************************)
C10_OnlyUnavailableIsHard ==
    h_pc = "returned" =>
        /\ ~h_gen_up =>
              /\ h_response.kind = "failure"
              /\ h_response.fields = {}
              /\ h_reply.content = Apology
              /\ h_reply.data = {}
        /\ h_gen_up =>
              /\ h_response.kind = "envelope"
              /\ h_reply.content = h_response.chat_response
              /\ h_reply.content # Apology
              /\ h_reply.data = h_response.fields

\* C10 witness: the Generation Client was out of reach and the caller got the
\* apology.
C10_Witness ==
    /\ h_pc = "returned"
    /\ ~h_gen_up
    /\ h_reply.content = Apology
    /\ h_reply.data = {}

(***************************************************************************)
(* C11: provided every generation call eventually settles, every message   *)
(* handed to handle eventually gets its response, whatever branches fail   *)
(* and in whatever order they complete: from loading the profile, through  *)
(* routing and dispatch, to the wait at the fan-in, a request in progress  *)
(* always reaches its return.                                              *)
(***************************************************************************)
C11_HandleEventuallyReturns ==
    (h_pc \in {"route", "dispatch", "running"}) ~> (h_pc = "returned")

\* C11 witness: a response returned after the council waited for two experts,
\* the second of which failed, and after the Mental Wellness branch failed.
C11_Witness ==
    /\ h_pc = "returned"
    /\ Len(kc_required) = 2
    /\ kc_future[kc_required[1]] = "ok"
    /\ kc_future[kc_required[2]] = "failed"
    /\ h_branch["mental_wellness"] = "failed"
    /\ h_branch["plan_generator"] = "ok"

(***************************************************************************)
(* C12: the references of the bundle consult returns are exactly the       *)
(* reference texts of the experts whose call succeeded (every one of       *)
(* them, and none that no succeeded expert gave), each text once; the      *)
(* same holds for the disclaimers.  The lists the result loop builds hold  *)
(* the same texts, before de-duplication.                                  *)
(***************************************************************************)
NoRepeats(q) == \A i, j \in 1..Len(q) : q[i] = q[j] => i = j

ReferencesOfSucceeded == UNION {Range(kc_result[e].references) : e \in Succeeded}

DisclaimersOfSucceeded == UNION {Range(kc_result[e].disclaimers) : e \in Succeeded}

C12_MergedListsAreDedupedUnion ==
    kc_pc = "returned" =>
        /\ Range(all_references) = ReferencesOfSucceeded
        /\ Range(all_disclaimers) = DisclaimersOfSucceeded
        /\ Range(KnowledgeBundle.references) = ReferencesOfSucceeded
        /\ Range(KnowledgeBundle.disclaimers) = DisclaimersOfSucceeded
        /\ NoRepeats(KnowledgeBundle.references)
        /\ NoRepeats(KnowledgeBundle.disclaimers)

\* C12 witness: two succeeded experts gave the same reference and the same
\* disclaimer, a third expert failed, and the bundle holds each text once.
C12_Witness ==
    /\ kc_pc = "returned"
    /\ Len(kc_required) = 3
    /\ kc_future[kc_required[2]] = "failed"
    /\ kc_result[kc_required[1]].references = <<"r1">>
    /\ kc_result[kc_required[3]].references = <<"r2", "r1">>
    /\ kc_result[kc_required[1]].disclaimers = <<"d1">>
    /\ kc_result[kc_required[3]].disclaimers = <<"d1">>
    /\ ~NoRepeats(all_references)
    /\ KnowledgeBundle.references = <<"r1", "r2">>
    /\ KnowledgeBundle.disclaimers = <<"d1">>

(***************************************************************************)
(* C13: for every query the experts the Knowledge Council dispatches are a *)
(* non-empty subset of general_health, nutrition, fitness and              *)
(* mental_wellness; when the extraction of the relevance output fails or   *)
(* gives an empty array, general_health alone is dispatched; and no call   *)
(* is ever started for an expert outside the four or outside the           *)
(* selection.                                                              *)
(***************************************************************************)
FixedExperts == {"general_health", "nutrition", "fitness", "mental_wellness"}

SelectionEmptyOrFailed == ex_result.tier = 3 \/ ArrayLength(ex_result.value) = 0

C13_DispatchedExpertsAreKnown ==
    kc_pc # "idle" =>
        /\ kc_required # <<>>
        /\ Range(kc_required) \subseteq FixedExperts
        /\ SelectionEmptyOrFailed => kc_required = <<"general_health">>
        /\ \A e \in DOMAIN kc_future :
              kc_future[e] # "none" => e \in Range(kc_required) \cap FixedExperts
        /\ kc_pc \in {"collect", "returned"} =>
              \A e \in Range(kc_required) : kc_future[e] # "none"

\* C13 witness: the relevance output was an array inside prose, which no tier of
\* the extraction recovers; general_health alone was consulted and answered.
C13_Witness ==
    /\ kc_pc = "returned"
    /\ ex_text = <<"x", "[", "v", "]">>
    /\ ex_result.tier = 3
    /\ kc_required = <<"general_health">>
    /\ kc_future = [e \in Experts |-> IF e = "general_health" THEN "ok" ELSE "none"]

(***************************************************************************)
(* C14: for every goal, profile and plan_type, the plan generate_plan      *)
(* returns has a diet_plan exactly when plan_type is diet or general, a    *)
(* fitness_plan exactly when plan_type is fitness or general, and always   *)
(* lifestyle_recommendations and personalized_notes; a request without     *)
(* plan_type gets the plan of the same request with plan_type general.     *)
(***************************************************************************)
C14_PlanKeysFollowPlanType ==
    pl_pc = "returned" =>
        LET given == pl_request.plan_type
            keys == DOMAIN pl_components
        IN  /\ given # "absent" =>
                  /\ "diet_plan" \in keys <=> given \in {"diet", "general"}
                  /\ "fitness_plan" \in keys <=> given \in {"fitness", "general"}
            /\ {"lifestyle_recommendations", "personalized_notes"} \subseteq keys
            /\ keys \subseteq {"diet_plan", "fitness_plan",
                               "lifestyle_recommendations", "personalized_notes"}
            /\ given = "absent" =>
                  pl_components =
                      plan_components([pl_request EXCEPT !.plan_type = "general"],
                                      pl_profile, pl_output)
            /\ given = "absent" => {"diet_plan", "fitness_plan"} \subseteq keys

\* C14 witness: a request with neither plan_type nor goal, for a user with a
\* stored profile, came back with all four components.
C14_Witness ==
    /\ pl_pc = "returned"
    /\ pl_request = NoPlanRequest
    /\ pl_profile = [age |-> 30, weight |-> 150]
    /\ DOMAIN pl_components = {"diet_plan", "fitness_plan",
                               "lifestyle_recommendations", "personalized_notes"}
    /\ pl_components["diet_plan"].goal = "overall health improvement"

(***************************************************************************)
(* C15: whenever plan_type calls for the diet plan (the fitness plan) and  *)
(* the extraction of that sub-plan's generation output fails, the plan     *)
(* returned still has the diet_plan (fitness_plan) key, and under it a     *)
(* sub-plan of the usual structure for the request's goal and profile,     *)
(* marked as not populated.                                                *)
(***************************************************************************)
ExtractionFailed(text) == robust_json_parser(text).tier = 3

MinimalSubPlan == [goal |-> GoalOf(pl_request), profile |-> pl_profile, populated |-> FALSE]

TriggersDiet == PlanTypeOf(pl_request.plan_type) \in {"diet", "general"}

TriggersFitness == PlanTypeOf(pl_request.plan_type) \in {"fitness", "general"}

C15_FailedSubPlanKeepsKey ==
    pl_pc = "returned" =>
        /\ (TriggersDiet /\ ExtractionFailed(pl_output.diet)) =>
              /\ "diet_plan" \in DOMAIN pl_components
              /\ pl_components["diet_plan"] = MinimalSubPlan
        /\ (TriggersFitness /\ ExtractionFailed(pl_output.fitness)) =>
              /\ "fitness_plan" \in DOMAIN pl_components
              /\ pl_components["fitness_plan"] = MinimalSubPlan
        /\ \A key \in DOMAIN pl_components :
              DOMAIN pl_components[key] = {"goal", "profile", "populated"}

\* C15 witness: a general plan whose fitness extraction failed while its diet
\* extraction recovered the plan from prose; both keys are there, the fitness
\* plan minimal and the diet plan populated.
C15_Witness ==
    /\ pl_pc = "returned"
    /\ pl_request.plan_type = "general"
    /\ pl_output = [diet |-> <<"x", "{", "k", "v", "}">>, fitness |-> <<"x">>]
    /\ pl_components["fitness_plan"].populated = FALSE
    /\ pl_components["diet_plan"].populated = TRUE

(***************************************************************************)
(* C17: while one message is handled the Strategist invokes the Generation *)
(* Client exactly once: no call before routing, one call once routing is   *)
(* over, and never a second one, whether the call failed or timed out,     *)
(* the client was out of reach, or the extraction gave the default         *)
(* decision.                                                               *)
(***************************************************************************)
C17_StrategistCallsOnce ==
    /\ h_calls \in {0, 1}
    /\ h_pc \in {"idle", "route"} => h_calls = 0
    /\ h_pc \in {"dispatch", "running", "returned"} => h_calls = 1

\* C17 witness: the routing gave the default decision (the call failed, or no
\* decision could be extracted from its text), the request went on to the
\* Knowledge Council and returned, with one call made.
C17_Witness ==
    /\ h_pc = "returned"
    /\ h_raw = DefaultDecision
    /\ h_decision.required_subsystems = {"knowledge_query"}
    /\ h_response.kind = "envelope"
    /\ h_calls = 1

(***************************************************************************)
(* C18: the profile snapshot loaded for a request keeps, for as long as    *)
(* the request lasts, the value it had when it was loaded: no branch       *)
(* changes it, and a Profile Manager write made while other subsystems of  *)
(* the same request are still running changes the store alone, not the     *)
(* profile those subsystems read.                                          *)
(***************************************************************************)
\* what a subsystem reading its profile argument finds in it now
ObservedSnapshot ==
    IF h_alias THEN DictGet(user_profiles, HandleUser, EmptyProfile) ELSE h_profile

C18_SnapshotIsNotShared ==
    h_pc \in {"route", "dispatch", "running", "returned"} =>
        ObservedSnapshot = h_profile

\* C18 witness: the user had a stored profile, the Profile Manager has replaced
\* it while the Knowledge Council and the Plan Generator are still running, and
\* the snapshot still reads as loaded.
C18_Witness ==
    /\ h_pc = "running"
    /\ h_profile = [age |-> 30]
    /\ h_branch["profile_manager"] = "ok"
    /\ h_branch["knowledge_query"] = "running"
    /\ h_branch["plan_generator"] = "running"
    /\ user_profiles[HandleUser] = [weight |-> 150]
    /\ ObservedSnapshot = [age |-> 30]

(***************************************************************************)
(* C19: handle starts the Profile Manager only for a routing decision with *)
(* profile_extraction_needed = true, and only then is the Profile Store    *)
(* written; when the flag is false the profile stored for the user at the  *)
(* return of handle is the one that was stored when handle loaded it.      *)
(***************************************************************************)
ProfileFrame ==
    h_pc \in {"running", "returned"} /\ h_response.kind # "failure" =>
        /\ h_branch["profile_manager"] # "none" => h_decision.profile_extraction_needed
        /\ ~h_decision.profile_extraction_needed =>
              /\ get_user_profile(user_profiles, HandleUser) = h_profile
              /\ h_alias = (HandleUser \in DOMAIN user_profiles)

StoreWrittenOnlyWhenNeeded ==
    user_profiles' # user_profiles =>
        (h_pc = "running" /\ h_decision.profile_extraction_needed)

C19_ProfileWriteOnlyWhenNeeded == []ProfileFrame /\ [][StoreWrittenOnlyWhenNeeded]_vars

\* C19 witness: a user with a stored profile sent a message whose decision did
\* not ask for profile extraction; the Plan Generator answered and the stored
\* profile is the one loaded.
C19_Witness ==
    /\ h_pc = "returned"
    /\ h_response.kind = "envelope"
    /\ ~h_decision.profile_extraction_needed
    /\ h_branch["profile_manager"] = "none"
    /\ h_branch["plan_generator"] = "ok"
    /\ h_profile = [age |-> 31, weight |-> 150]
    /\ user_profiles[HandleUser] = [age |-> 31, weight |-> 150]

(***************************************************************************)
(* C20: when the request is cancelled (its client disconnects), every      *)
(* generation call still outstanding for it is cancelled: from the         *)
(* cancellation on, a state is reached in which no expert call of the      *)
(* request is still running.                                               *)
(***************************************************************************)
NoCallOutstanding == \A e \in Experts : kc_future[e] # "running"

C20_CancelledRequestStopsItsCalls == kc_cancelled ~> NoCallOutstanding

\* C20 witness: the client has disconnected, the first expert's answer has been
\* collected and the second expert's call is still running.
C20_Witness ==
    /\ kc_cancelled
    /\ kc_pc = "collect"
    /\ Len(kc_required) = 2
    /\ kc_collected = <<kc_required[1]>>
    /\ kc_future[kc_required[2]] = "running"

(***************************************************************************)
(* C21: the prompt of the mental-wellness responder depends only on the    *)
(* query and on age, activity_level and health_conditions.  Two profiles   *)
(* agree on a field when looking it up (dict.get) gives the same value.    *)
(***************************************************************************)
Lookup(user_profile, k) ==
    IF \E i \in 1..Len(user_profile) : user_profile[i].key = k
       THEN (CHOOSE kv \in Range(user_profile) : kv.key = k).value
       ELSE "None"

AgreeOnRelevant(p, q) == \A k \in relevant_fields : Lookup(p, k) = Lookup(q, k)

KeysOf(d) == [i \in 1..Len(d) |-> d[i].key]

\* the relevant fields that hold a value come in the same order in both dicts
SameRelevantOrder(p, q) ==
    KeysOf(SelectSeq(p, IsRelevant)) = KeysOf(SelectSeq(q, IsRelevant))

BothReturned == \A i \in Invocations : mw_pc[i] = "returned"

EntriesOf(prompt) ==
    IF prompt.context = <<>> THEN {} ELSE Range(prompt.context[1])

\* C21 as stated: two profiles that agree on age, activity_level and
\* health_conditions produce the same prompt for the same query.
C21_AgreeingProfilesSamePrompt ==
    (BothReturned /\ AgreeOnRelevant(mw_profile[1], mw_profile[2]))
        => mw_prompt[1] = mw_prompt[2]

\* C21 amended: for two profiles that agree on age, activity_level and
\* health_conditions the two prompts embed the same query and the same set of
\* profile entries, all of them relevant fields, and are the same prompt when
\* the two profiles hold those fields in the same order; every invocation makes
\* exactly one generation call, and its prompt is a function of its own
\* arguments only (nothing is carried over from the other invocation).
C21_PromptReadsOnlyRelevantFields ==
    /\ \A i \in Invocations :
          /\ mw_calls[i] = (IF mw_pc[i] = "returned" THEN 1 ELSE 0)
          /\ mw_pc[i] = "returned" =>
                /\ mw_prompt[i].query = mw_query
                /\ \A kv \in EntriesOf(mw_prompt[i]) :
                      /\ kv.key \in relevant_fields
                      /\ kv.value = Lookup(mw_profile[i], kv.key)
                /\ \A k \in relevant_fields :
                      Lookup(mw_profile[i], k) # "None"
                          => \E kv \in EntriesOf(mw_prompt[i]) : kv.key = k
    /\ (BothReturned /\ AgreeOnRelevant(mw_profile[1], mw_profile[2])) =>
          /\ EntriesOf(mw_prompt[1]) = EntriesOf(mw_prompt[2])
          /\ SameRelevantOrder(mw_profile[1], mw_profile[2])
                => mw_prompt[1] = mw_prompt[2]

\* C21 witness: both invocations have returned; the profiles hold the same age
\* and activity_level in the same order and differ in dietary_restrictions
\* (one has none); both prompts embed the two relevant entries.
C21_Witness ==
    /\ BothReturned
    /\ mw_profile[1] = <<[key |-> "age", value |-> "30"],
                         [key |-> "dietary_restrictions", value |-> "vegan"],
                         [key |-> "activity_level", value |-> "high"]>>
    /\ mw_profile[2] = <<[key |-> "age", value |-> "30"],
                         [key |-> "activity_level", value |-> "high"]>>
    /\ mw_prompt[1] = mw_prompt[2]
    /\ Len(mw_prompt[1].context[1]) = 2
    /\ mw_calls = [i \in Invocations |-> 1]

(***************************************************************************)
(* C24: the store operations touch only the addressed user.  A step        *)
(* changes the entry of user u only when it is the write of an update      *)
(* called with user_id u, and then to that update's new_data; a get leaves *)
(* the store as it is and hands out the empty profile for an unknown or    *)
(* empty user_id; an update with an empty user_id stores nothing, so the   *)
(* store never holds an entry for the empty user_id.                       *)
(***************************************************************************)
EntryChanged(u) ==
    \/ (u \in DOMAIN user_profiles') # (u \in DOMAIN user_profiles)
    \/ /\ u \in DOMAIN user_profiles
       /\ u \in DOMAIN user_profiles'
       /\ user_profiles'[u] # user_profiles[u]

StoreFrame ==
    /\ \A u \in UserIds :
          EntryChanged(u) =>
             \E r \in Requests :
                /\ st_pc[r] = "update"
                /\ st_uid[r] = u
                /\ u # ""
                /\ user_profiles'[u] = st_new[r]
    /\ DOMAIN user_profiles' \subseteq UserIds
    /\ \A r \in Requests :
          (st_pc[r] = "idle" /\ st_pc'[r] = "extract") =>
             /\ user_profiles' = user_profiles
             /\ st_existing'[r] =
                   (IF st_uid'[r] # "" /\ st_uid'[r] \in DOMAIN user_profiles
                       THEN user_profiles[st_uid'[r]] ELSE EmptyProfile)
    /\ \A r \in Requests :
          (st_pc[r] = "update" /\ st_uid[r] = "" /\ st_pc'[r] # "update") =>
             /\ user_profiles' = user_profiles
             /\ st_ret'[r] = st_new[r]

C24_StoreTouchesOnlyAddressedUser ==
    [][StoreFrame]_vars /\ []("" \notin DOMAIN user_profiles)

\* C24 witness: u1's profile was stored first; the second request has replaced
\* the profile of u2, and u1's entry is as it was.
C24_Witness ==
    /\ st_uid = <<"u1", "u2">>
    /\ st_pc = <<"done", "return">>
    /\ st_new = <<[age |-> 30], [weight |-> 150]>>
    /\ user_profiles = [u \in {"u1", "u2"} |->
                           IF u = "u1" THEN [age |-> 30] ELSE [weight |-> 150]]

(***************************************************************************)
(* C23: what a failed or degraded profile extraction does to the stored    *)
(* profile.  An extraction that fell back to the default record hands the  *)
(* update the empty set of fields (EmptyProfile).                          *)
(***************************************************************************)
DegradedUpdateDone(r) ==
    /\ st_pc[r] \in {"return", "done"}
    /\ st_wk[r] > 0
    /\ st_new[r] = EmptyProfile

UpdateStep(r) ==
    /\ st_pc[r] = "update"
    /\ st_uid[r] # ""
    /\ st_pc'[r] = "return"

FailedExtractionStep(r) == st_pc[r] = "extract" /\ st_pc'[r] = "failed"

IsInitialSegment(p, q) == Len(p) <= Len(q) /\ SubSeq(q, 1, Len(p)) = p

\* C22 as stated: over sendMessage, response arrival, error and clearChat, the
\* list before a step is a prefix of the list after it.
C22_MessagesAppendOnly == [][Reload \/ IsInitialSegment(ch_messages, ch_messages')]_vars

\* C22 amended: every sendMessage, response arrival and error leaves the list it
\* found, unchanged, as a prefix of the new list; clearChat removes all the
\* messages at once.
C22_AppendOnlyUntilCleared ==
    [][/\ clearChat => ch_messages' = <<>>
       /\ (~clearChat /\ ~Reload) => IsInitialSegment(ch_messages, ch_messages')]_vars

\* C22 witness: a second exchange has been appended after the first, which is
\* still in place.
C22_Witness ==
    /\ Len(ch_messages) = 4
    /\ ch_messages[1] = userMessage(1, "hi")
    /\ ch_messages[2] = errorMessage(1)
    /\ ch_messages[3] = userMessage(2, "hi")
    /\ ch_messages[4].role = "assistant"
    /\ ch_messages[4].content = "answer"
    /\ ~ch_cleared

(***************************************************************************)
(* C25: what one sendMessage call does to messages and isLoading.          *)
(***************************************************************************)
Outstanding == {n \in Sends : ch_req[n] = "outstanding"}

IdsOf(list) == [i \in 1..Len(list) |-> list[i].id]

PositionsOf(list, id) == {i \in 1..Len(list) : list[i].id = id}

C26_OneRequestAtATime ==
    /\ Cardinality(Outstanding) <= 1
    /\ ch_isLoading <=> Outstanding # {}
    /\ \A call \in ch_calls : Trim(call[1]) # "" /\ ~call[2]

\* C26 witness: "hi" was submitted while nothing was loading; its request is
\* outstanding, the text has been reset, and an earlier request has settled.
C26_Witness ==
    /\ ch_calls = {<<"hi", FALSE>>}
    /\ ch_req[1] = "settled"
    /\ ch_req[2] = "outstanding"
    /\ ch_isLoading
    /\ ch_text = ""

(***************************************************************************)
(* C27: after clearChat, and until sendMessage is called again, messages   *)
(* is empty and the 'chatMessages' entry is absent.                        *)
(***************************************************************************)
C27_ClearedStaysCleared ==
    ch_cleared => (ch_messages = <<>> /\ ~ch_storage.present)

\* C27 witness: clearChat ran while the request of the first call was still
\* outstanding; the list is empty and the entry is absent.
C27_Witness ==
    /\ ch_cleared
    /\ ch_req[1] = "outstanding"
    /\ ch_messages = <<>>
    /\ ~ch_storage.present

(***************************************************************************)
(* C28: saved messages survive a reload.  Two lists are equal when they    *)
(* have the same length and every field of every message reads the same    *)
(* (a key that is absent reads as undefined).                              *)
(***************************************************************************)
MessageKeys == {"id", "role", "content", "dietPlan", "fitnessPlan", "knowledge"}

Read(m, k) == IF k \in DOMAIN m THEN m[k] ELSE "undefined"

SameList(p, q) ==
    /\ Len(p) = Len(q)
    /\ \A i \in 1..Len(p) : \A k \in MessageKeys \cup DOMAIN p[i] \cup DOMAIN q[i] :
          Read(p[i], k) = Read(q[i], k)

Saved(list) == [present |-> TRUE, parsable |-> TRUE, items |-> JsonStringify(list)]

\* C28: a non-empty messages list is what the entry holds; a reload restores a
\* list equal to the one saved and to the one shown before it, leaves a saved
\* non-empty list in the entry, and with an entry that does not parse ends
\* with messages empty; the mount is possible in every state.
C28_SavedMessagesSurviveReload ==
    /\ [](Len(ch_messages) > 0 => ch_storage = Saved(ch_messages))
    /\ [](ENABLED Reload)
    /\ [][Reload =>
            /\ ch_storage.present /\ ch_storage.parsable =>
                  /\ SameList(ch_messages', ch_storage.items)
                  /\ Len(ch_storage.items) > 0 => ch_storage' = ch_storage
            /\ Len(ch_messages) > 0 => SameList(ch_messages', ch_messages)
            /\ ~(ch_storage.present /\ ch_storage.parsable) => ch_messages' = <<>>]_vars

\* C28 witness: after a reload the list holds the exchange saved before it; the
\* answer came without diet_plan, fitness_plan and knowledge, which the saved
\* copy leaves out.
C28_Witness ==
    /\ ch_req[1] = "settled"
    /\ ~ch_isLoading
    /\ ch_messages = <<userMessage(1, "hi"),
                       [id |-> "a1", role |-> "assistant", content |-> "answer"]>>
    /\ ch_storage = Saved(ch_messages)

(***************************************************************************)
(* C29: PlanNavigator's view starts at overview, is always one of the four *)
(* views, is diet only with a dietPlan, fitness only with a fitnessPlan    *)
(* and quick only with both; from every other view one click leads back to *)
(* overview.                                                               *)
(***************************************************************************)
C29_ViewFollowsProps ==
    /\ pn_view = "overview"
    /\ [](/\ pn_view \in Views
          /\ pn_view = "diet" => HasDiet
          /\ pn_view = "fitness" => HasFitness
          /\ pn_view = "quick" => (HasDiet /\ HasFitness)
          /\ pn_view # "overview" => ENABLED NavClick("overview"))

\* C29 witness: with a dietPlan and no fitnessPlan the diet view is open.
C29_Witness ==
    /\ pn_view = "diet"
    /\ pn_dietPlan = "plan"
    /\ pn_fitnessPlan.kind = "undefined"

(***************************************************************************)
(* C30: FitnessPlan shows the schedule of the first candidate field that   *)
(* holds a non-empty array or a non-empty object, and the note that no     *)
(* schedule was found only when no candidate field holds one.              *)
(***************************************************************************)
HoldsSchedule(value) == value.type \in {"array", "object"} /\ Len(value.days) > 0

FirstHolding(data) ==
    FirstIndex({k \in FieldPositions : HoldsSchedule(data[possibleScheduleFields[k]])})

C30_ScheduleFromFirstHoldingField ==
    pn_view = "fitness" =>
        LET data == pn_fitnessPlan.data
            i == FirstHolding(data)
        IN  IF i # 0
            THEN /\ fp_display.shown = "days"
                 /\ fp_display.field = possibleScheduleFields[i]
                 /\ fp_display.days = data[possibleScheduleFields[i]].days
            ELSE fp_display.shown = NoScheduleNote

\* C30 witness: workout_schedule is an empty object and weekly_schedule an array
\* with one day; the fitness view shows the note.
C30_Witness ==
    /\ pn_view = "fitness"
    /\ pn_fitnessPlan.data["workout_schedule"] = [type |-> "object", days |-> <<>>]
    /\ pn_fitnessPlan.data["weekly_schedule"] = [type |-> "array", days |-> <<"Monday">>]
    /\ fp_display.shown = NoScheduleNote

====
